---- MODULE Spec2Model ----
(***************************************************************************)
(* opencode-nexos-models-config: the model registry (models.config.mjs),   *)
(* the resolver and catalog processor, the configuration merger and the    *)
(* main run of the CLI (index.mjs), as a state machine.                    *)
(*                                                                         *)
(* JavaScript values are encoded as follows.                               *)
(*  - a string is a TLA+ string; startsWith, includes and toLowerCase are  *)
(*    computed character by character;                                     *)
(*  - a plain object is a function from its own property names to values;  *)
(*    an absent property is a name outside the DOMAIN;                     *)
(*  - a property read obj[key] with a computed key also sees what every    *)
(*    object literal inherits from Object.prototype (ObjectPrototypeKeys): *)
(*    such a read yields the inherited function, written [builtin |-> k];  *)
(*  - prices are held in thousandths (5 is 5000, 0.125 is 125), so that    *)
(*    every registry price is an integer;                                  *)
(*  - a value whose type the code tests is tagged: [null |-> TRUE],        *)
(*    [num |-> n], [str |-> s], [obj |-> f].                               *)
(***************************************************************************)
EXTENDS Integers, Sequences, FiniteSets, TLC

VARIABLES
  pc,            \* position of main(), or "pure" in the function-level specification
  exitCode,      \* -1 while running, else the code given to process.exit
  exitReason,    \* why main() ended
  cliArgs,       \* parseCliArgs(process.argv)
  env,           \* process.env: the variables that are set, by name
  depsOk,        \* whether `which opencode` succeeded
  fetches,       \* number of requests issued to the catalog API
  files,         \* the configuration files read or written so far: path -> content
  writes,        \* sequence of [path, content] written by writeFile
  modelsList,    \* main's modelsList
  existingCosts, \* main's existingCosts
  result,        \* main's { models, skippedModels, unsupportedModels }
  existingConfig,\* main's existingConfig
  config,        \* main's config
  editor,        \* local state of the interactive editor that is running
  call,          \* function-level specification: the call made
  ret,           \* function-level specification: what it returned
  registry       \* models.config.mjs: what SUPPORTED_MODELS and
                 \* DEFAULT_FALLBACK_COSTS hold

vars == <<pc, exitCode, exitReason, cliArgs, env, depsOk, fetches, files,
          writes, modelsList, existingCosts, result, existingConfig, config,
          editor, call, ret, registry>>

-----------------------------------------------------------------------------
(* Strings *)

CharAt(s, i) == SubSeq(s, i, i)

StartsWith(s, prefix) ==
  /\ Len(s) >= Len(prefix)
  /\ SubSeq(s, 1, Len(prefix)) = prefix

Includes(s, sub) ==
  \E i \in 1..(Len(s) - Len(sub) + 1) : SubSeq(s, i, i + Len(sub) - 1) = sub

LowerChar(c) ==
  LET UpperCase == "ABCDEFGHIJKLMNOPQRSTUVWXYZ"
      LowerCase == "abcdefghijklmnopqrstuvwxyz"
  IN IF \E i \in 1..Len(UpperCase) : CharAt(UpperCase, i) = c
     THEN CharAt(LowerCase, CHOOSE i \in 1..Len(UpperCase) : CharAt(UpperCase, i) = c)
     ELSE c

RECURSIVE ToLowerCase(_)
ToLowerCase(s) ==
  IF Len(s) = 0 THEN s
  ELSE LowerChar(CharAt(s, 1)) \o ToLowerCase(SubSeq(s, 2, Len(s)))

\* Collation order of the characters that occur in lower-cased display names:
\* white space, then punctuation, then digits, then letters.
CollationOrder == " _-,;:!?.'()[]@*/&#%+=~$0123456789abcdefghijklmnopqrstuvwxyz"

CharRank(c) ==
  IF \E i \in 1..Len(CollationOrder) : CharAt(CollationOrder, i) = c
  THEN CHOOSE i \in 1..Len(CollationOrder) : CharAt(CollationOrder, i) = c
  ELSE Len(CollationOrder) + 1

\* a.localeCompare(b) < 0, = 0, > 0 as -1, 0, 1
RECURSIVE LocaleCompare(_, _)
LocaleCompare(a, b) ==
  IF Len(a) = 0 /\ Len(b) = 0 THEN 0
  ELSE IF Len(a) = 0 THEN -1
  ELSE IF Len(b) = 0 THEN 1
  ELSE IF CharRank(CharAt(a, 1)) < CharRank(CharAt(b, 1)) THEN -1
  ELSE IF CharRank(CharAt(a, 1)) > CharRank(CharAt(b, 1)) THEN 1
  ELSE LocaleCompare(SubSeq(a, 2, Len(a)), SubSeq(b, 2, Len(b)))

-----------------------------------------------------------------------------
(* Objects *)

\* Names every object literal inherits from Object.prototype.
ObjectPrototypeKeys ==
  {"constructor", "toString", "valueOf", "hasOwnProperty", "isPrototypeOf",
   "propertyIsEnumerable", "toLocaleString"}

Builtin(key) == [builtin |-> key]
IsBuiltin(v) == "builtin" \in DOMAIN v

\* key in obj
JsIn(key, obj) == key \in DOMAIN obj \/ key \in ObjectPrototypeKeys

\* obj[key], for a key JsIn finds
JsGet(obj, key) == IF key \in DOMAIN obj THEN obj[key] ELSE Builtin(key)

EmptyObject == [k \in {} |-> 0]

\* { ...a, ...b }
Spread(a, b) ==
  [k \in DOMAIN a \cup DOMAIN b |-> IF k \in DOMAIN b THEN b[k] ELSE a[k]]

\* { ...a, [key]: value }
With(a, key, value) ==
  [k \in DOMAIN a \cup {key} |-> IF k = key THEN value ELSE a[k]]

Without(a, keys) == [k \in DOMAIN a \ keys |-> a[k]]

RECURSIVE SeqToSet(_)
SeqToSet(s) == IF s = <<>> THEN {} ELSE {Head(s)} \cup SeqToSet(Tail(s))

-----------------------------------------------------------------------------
(* models.config.mjs *)

ClaudeVariants ==
  [low  |-> [thinking |-> [type |-> "enabled", budgetTokens |-> 1024]],
   high |-> [thinking |-> [type |-> "enabled", budgetTokens |-> 32000]]]

GptVariants ==
  [low  |-> [reasoningEffort |-> "low"],
   high |-> [reasoningEffort |-> "high"]]

GeminiVariants(highBudget) ==
  [low  |-> [thinking |-> [type |-> "enabled", budgetTokens |-> 1024]],
   high |-> [thinking |-> [type |-> "enabled", budgetTokens |-> highBudget]]]

SUPPORTED_MODELS ==
  [n \in {"Claude Opus 4.5", "Claude Opus 4.6", "Claude Sonnet 4.5", "GPT 5.2",
          "GPT 5", "Gemini 2.5 Pro", "Gemini 2.5 Flash", "Kimi K2.5"} |->
    CASE n = "Claude Opus 4.5" ->
           [limit |-> [context |-> 200000, output |-> 64000],
            cost |-> [input |-> 5000, output |-> 25000, cache_read |-> 500, cache_write |-> 6250],
            variants |-> ClaudeVariants]
      [] n = "Claude Opus 4.6" ->
           [limit |-> [context |-> 200000, output |-> 128000],
            cost |-> [input |-> 5000, output |-> 25000, cache_read |-> 500, cache_write |-> 6250],
            variants |-> ClaudeVariants]
      [] n = "Claude Sonnet 4.5" ->
           [limit |-> [context |-> 200000, output |-> 64000],
            cost |-> [input |-> 3000, output |-> 15000, cache_read |-> 300, cache_write |-> 3750],
            variants |-> ClaudeVariants]
      [] n = "GPT 5.2" ->
           [limit |-> [context |-> 400000, output |-> 128000],
            cost |-> [input |-> 1750, output |-> 14000, cache_read |-> 175],
            variants |-> GptVariants,
            options |-> [reasoningEffort |-> "none"]]
      [] n = "GPT 5" ->
           [limit |-> [context |-> 400000, output |-> 128000],
            cost |-> [input |-> 1250, output |-> 10000, cache_read |-> 125],
            variants |-> GptVariants,
            options |-> [reasoningEffort |-> "none"]]
      [] n = "Gemini 2.5 Pro" ->
           [limit |-> [context |-> 1048576, output |-> 65536],
            cost |-> [input |-> 1250, output |-> 10000, cache_read |-> 125],
            variants |-> GeminiVariants(32768)]
      [] n = "Gemini 2.5 Flash" ->
           [limit |-> [context |-> 1048576, output |-> 65536],
            cost |-> [input |-> 300, output |-> 2500, cache_read |-> 30],
            variants |-> GeminiVariants(24576)]
      [] n = "Kimi K2.5" ->
           [limit |-> [context |-> 256000, output |-> 64000],
            cost |-> [input |-> 600, output |-> 3000, cache_read |-> 100]]]

DEFAULT_FALLBACK_COSTS ==
  [input |-> 5000, output |-> 25000, cache_read |-> 500, cache_write |-> 6250]

skippedModelPrefixes == <<"Gemini 3">>

\* structuredClone of a value of the model: values are immutable here, so a
\* clone is the value.
clone(value) == value

Null == [null |-> TRUE]

\* The module's two mutable objects, as models.config.mjs creates them.
InitialRegistry ==
  [SUPPORTED_MODELS |-> SUPPORTED_MODELS,
   DEFAULT_FALLBACK_COSTS |-> DEFAULT_FALLBACK_COSTS]

\* SUPPORTED_MODELS[displayName] || null: the stored entry itself
getModelConfig(displayName) ==
  IF JsIn(displayName, registry.SUPPORTED_MODELS)
  THEN JsGet(registry.SUPPORTED_MODELS, displayName)
  ELSE Null

\* displayName in SUPPORTED_MODELS
isModelSupported(displayName) == JsIn(displayName, registry.SUPPORTED_MODELS)

DefaultContext == 128000
DefaultOutput == 64000

\* apiModel is an object of the catalog; a hint that is absent or 0 is falsy.
HintOr(apiModel, field, default) ==
  IF field \in DOMAIN apiModel /\ apiModel[field] # 0 THEN apiModel[field] ELSE default

\* A resolver that takes the hints of the API before the registry.
getModelLimitHintsFirst(displayName, apiModel) ==
  LET cfg == getModelConfig(displayName) IN
  IF "limit" \in DOMAIN cfg /\ DOMAIN apiModel \cap {"context_window", "max_output_tokens"} = {}
  THEN clone(cfg.limit)
  ELSE [context |-> HintOr(apiModel, "context_window", DefaultContext),
        output  |-> HintOr(apiModel, "max_output_tokens", DefaultOutput)]

getModelLimit(displayName, apiModel) ==
  LET cfg == getModelConfig(displayName) IN
  IF "limit" \in DOMAIN cfg
  THEN clone(cfg.limit)
  ELSE [context |-> HintOr(apiModel, "context_window", DefaultContext),
        output  |-> HintOr(apiModel, "max_output_tokens", DefaultOutput)]

\* Whether getModelLimit reaches its console.error: only past the early return.
getModelLimitWarns(displayName) ==
  "limit" \notin DOMAIN getModelConfig(displayName)

\* existingCosts is [undefined |-> TRUE] or [obj |-> costs by name]
HasExistingCost(displayName, costs) ==
  /\ "obj" \in DOMAIN costs
  /\ JsIn(displayName, costs.obj)

\* A resolver whose fallback constant has no output price.
getModelCostShortFallback(displayName, costs) ==
  IF HasExistingCost(displayName, costs)
  THEN JsGet(costs.obj, displayName)
  ELSE LET cfg == getModelConfig(displayName) IN
       IF "cost" \in DOMAIN cfg
       THEN clone(cfg.cost)
       ELSE [input |-> 5000]

getModelCost(displayName, costs) ==
  IF HasExistingCost(displayName, costs)
  THEN JsGet(costs.obj, displayName)
  ELSE LET cfg == getModelConfig(displayName) IN
       IF "cost" \in DOMAIN cfg
       THEN clone(cfg.cost)
       ELSE clone(registry.DEFAULT_FALLBACK_COSTS)

\* The three optional fields are given as one-field objects, to be spread.
getModelVariants(displayName) ==
  LET cfg == getModelConfig(displayName) IN
  IF "variants" \in DOMAIN cfg THEN [variants |-> clone(cfg.variants)] ELSE EmptyObject

getModelOptions(displayName) ==
  LET cfg == getModelConfig(displayName) IN
  IF "options" \in DOMAIN cfg THEN [options |-> clone(cfg.options)] ELSE EmptyObject

isSkippedModel(displayName) ==
  \E i \in 1..Len(skippedModelPrefixes) : StartsWith(displayName, skippedModelPrefixes[i])

-----------------------------------------------------------------------------
(* index.mjs: helpers and the catalog processor *)

\* model.name || model.id: an absent or empty name is falsy.
getDisplayName(model) ==
  IF "name" \in DOMAIN model /\ model.name # "" THEN model.name ELSE model.id

\* (model.name || "").includes("(No PII)")
HasPrivacyMarker(model) ==
  Includes(IF "name" \in DOMAIN model THEN model.name ELSE "", "(No PII)")

\* The sort comparator of fetchModelsFromApi.
CompareModels(a, b) ==
  LocaleCompare(ToLowerCase(getDisplayName(a)), ToLowerCase(getDisplayName(b)))

\* Array.prototype.sort is stable: an element goes after every element that
\* does not compare greater than it.
RECURSIVE InsertSorted(_, _)
InsertSorted(sorted, m) ==
  IF sorted = <<>> THEN <<m>>
  ELSE IF CompareModels(Head(sorted), m) <= 0
       THEN <<Head(sorted)>> \o InsertSorted(Tail(sorted), m)
       ELSE <<m>> \o sorted

RECURSIVE SortModels(_)
SortModels(list) ==
  IF list = <<>> THEN <<>>
  ELSE InsertSorted(SortModels(SubSeq(list, 1, Len(list) - 1)), list[Len(list)])

\* One resolved model: { name, limit, ...options, ...variants, ...cost }.
\* Every value getModelCost returns is truthy, so cost is always spread in.
ResolvedModel(displayName, model, costs) ==
  Spread(Spread(Spread([name |-> displayName,
                        limit |-> getModelLimit(displayName, model)],
                       getModelOptions(displayName)),
                getModelVariants(displayName)),
         [cost |-> getModelCost(displayName, costs)])

EmptyResult ==
  [models |-> EmptyObject, modelNames |-> <<>>,
   skippedModels |-> <<>>, unsupportedModels |-> <<>>]

\* A loop body that tests the skip prefix before "embedding".
ProcessOneSkipPrefixFirst(acc, model, costs, supportedModelsOnly) ==
  LET displayName == getDisplayName(model) IN
  IF HasPrivacyMarker(model) THEN acc
  ELSE IF isSkippedModel(displayName)
       THEN [acc EXCEPT !.skippedModels = Append(@, displayName)]
  ELSE IF Includes(ToLowerCase(displayName), "embedding") THEN acc
  ELSE IF supportedModelsOnly /\ ~isModelSupported(displayName)
       THEN [acc EXCEPT !.unsupportedModels = Append(@, displayName)]
  ELSE [acc EXCEPT
          !.models = With(@, displayName, ResolvedModel(displayName, model, costs)),
          !.modelNames = IF displayName \in DOMAIN acc.models
                         THEN @ ELSE Append(@, displayName)]

\* One iteration of the loop of processModels. modelNames is Object.keys(models):
\* the keys in the order of their first insertion.
ProcessOne(acc, model, costs, supportedModelsOnly) ==
  LET displayName == getDisplayName(model) IN
  IF HasPrivacyMarker(model) THEN acc
  ELSE IF Includes(ToLowerCase(displayName), "embedding") THEN acc
  ELSE IF isSkippedModel(displayName)
       THEN [acc EXCEPT !.skippedModels = Append(@, displayName)]
  ELSE IF supportedModelsOnly /\ ~isModelSupported(displayName)
       THEN [acc EXCEPT !.unsupportedModels = Append(@, displayName)]
  ELSE [acc EXCEPT
          !.models = With(@, displayName, ResolvedModel(displayName, model, costs)),
          !.modelNames = IF displayName \in DOMAIN acc.models
                         THEN @ ELSE Append(@, displayName)]

RECURSIVE ProcessFrom(_, _, _, _)
ProcessFrom(acc, list, costs, supportedModelsOnly) ==
  IF list = <<>> THEN acc
  ELSE ProcessFrom(ProcessOne(acc, Head(list), costs, supportedModelsOnly),
                   Tail(list), costs, supportedModelsOnly)

processModels(list, costs, supportedModelsOnly) ==
  ProcessFrom(EmptyResult, list, costs, supportedModelsOnly)

-----------------------------------------------------------------------------
(* index.mjs: configuration files and the merger *)

\* What a path holds: nothing readable, text that is not JSON, or JSON text,
\* given by the value it parses to.
Missing == [missing |-> TRUE]
Garbage == [garbage |-> TRUE]
Json(value) == [json |-> value]

\* value && typeof value === "object" ? value : undefined, for an optional
\* tagged value given as present/raw; undefined and null read like {} under ?.
asObject(present, raw) ==
  IF present /\ "obj" \in DOMAIN raw THEN raw.obj ELSE EmptyObject

\* env entries are tagged values; only the strings are kept, once each.
RECURSIVE UniqueFrom(_, _)
UniqueFrom(out, values) ==
  IF values = <<>> THEN out
  ELSE LET v == Head(values) IN
       IF "str" \notin DOMAIN v THEN UniqueFrom(out, Tail(values))
       ELSE IF \E i \in 1..Len(out) : out[i] = v THEN UniqueFrom(out, Tail(values))
       ELSE UniqueFrom(Append(out, v), Tail(values))

\* A filter that keeps every string, repeated ones too.
uniqueStringsKeepingAll(values) ==
  LET F[i \in 0..Len(values)] ==
        IF i = 0 THEN <<>>
        ELSE IF "str" \in DOMAIN values[i] THEN Append(F[i - 1], values[i]) ELSE F[i - 1]
  IN F[Len(values)]

uniqueStrings(values) == UniqueFrom(<<>>, values)

\* JSON.parse of the text at a path; parsing what is not JSON throws.
ParsesAsJson(content) == "json" \in DOMAIN content

\* loadExistingConfig: any failure to read or parse yields {}.
loadExistingConfig(content) ==
  IF ParsesAsJson(content) THEN content.json ELSE [obj |-> EmptyObject]

\* Property reads on a parsed top-level value: null has no properties (a
\* read throws), a number has none of its own.
TopLevel(value) == IF "obj" \in DOMAIN value THEN value.obj ELSE EmptyObject

\* existingConfig.provider?.["nexos-ai"], through asObject
ExistingProvider(cfg) ==
  LET providers == IF "provider" \in DOMAIN cfg THEN cfg.provider ELSE EmptyObject IN
  asObject("nexos-ai" \in DOMAIN providers,
           IF "nexos-ai" \in DOMAIN providers THEN providers["nexos-ai"] ELSE Null)

\* The costs getExistingModelCosts collects from the models of a provider block.
CostsOf(models) ==
  [n \in {m \in DOMAIN models : "cost" \in DOMAIN models[m]} |-> models[n].cost]

\* getExistingModelCosts, given what the default path holds. A read or parse
\* failure, and null (whose property read throws), end in the catch.
getExistingModelCosts(content) ==
  IF ~ParsesAsJson(content) \/ content.json = Null THEN [obj |-> EmptyObject]
  ELSE LET existingProvider == ExistingProvider(TopLevel(content.json))
           existingModels == asObject("models" \in DOMAIN existingProvider,
                                      IF "models" \in DOMAIN existingProvider
                                      THEN existingProvider.models ELSE Null)
       IN [obj |-> CostsOf(existingModels)]

\* a || b for an optional string
StringOr(obj, field, default) ==
  IF field \in DOMAIN obj /\ obj[field] # "" THEN obj[field] ELSE default

\* a || b for an optional tagged value: 0 is replaced by the default too.
ValueOrDefaultFalsy(obj, field, default) ==
  IF field \in DOMAIN obj /\ obj[field] # Null /\ obj[field] # [num |-> 0]
  THEN obj[field] ELSE default

\* a ?? b for an optional tagged value
ValueOrDefault(obj, field, default) ==
  IF field \in DOMAIN obj /\ obj[field] # Null THEN obj[field] ELSE default

\* buildProviderConfig throws when existingConfig is null.
BuildThrows(existing) == existing = Null

\* A merger whose default baseURL is the API base URL as given, with no "/"
\* put after it.
buildProviderConfigBareURL(existing, models, apiBaseURL) ==
  LET existingProvider == ExistingProvider(TopLevel(existing))
      existingEnv == uniqueStrings(IF "env" \in DOMAIN existingProvider
                                   THEN existingProvider.env ELSE <<>>)
      existingOptions == asObject("options" \in DOMAIN existingProvider,
                                  IF "options" \in DOMAIN existingProvider
                                  THEN existingProvider.options ELSE Null)
  IN [npm |-> StringOr(existingProvider, "npm", "@crazy-goat/nexos-provider"),
      name |-> StringOr(existingProvider, "name", "Nexos AI"),
      env |-> uniqueStrings(<<[str |-> "NEXOS_API_KEY"]>> \o existingEnv),
      options |-> [obj |->
        Spread(existingOptions,
               [baseURL |-> StringOr(existingOptions, "baseURL", apiBaseURL),
                timeout |-> ValueOrDefault(existingOptions, "timeout", [num |-> 300000])])],
      models |-> [obj |-> models]]

\* A merger that keeps the models of the existing block under the fresh ones:
\* models: { ...existingProvider.models, ...models }.
buildProviderConfigMerging(existing, models, apiBaseURL) ==
  LET existingProvider == ExistingProvider(TopLevel(existing))
      existingEnv == uniqueStrings(IF "env" \in DOMAIN existingProvider
                                   THEN existingProvider.env ELSE <<>>)
      existingOptions == asObject("options" \in DOMAIN existingProvider,
                                  IF "options" \in DOMAIN existingProvider
                                  THEN existingProvider.options ELSE Null)
      existingModels == asObject("models" \in DOMAIN existingProvider,
                                 IF "models" \in DOMAIN existingProvider
                                 THEN existingProvider.models ELSE Null)
  IN [npm |-> StringOr(existingProvider, "npm", "@crazy-goat/nexos-provider"),
      name |-> StringOr(existingProvider, "name", "Nexos AI"),
      env |-> uniqueStrings(<<[str |-> "NEXOS_API_KEY"]>> \o existingEnv),
      options |-> [obj |->
        Spread(existingOptions,
               [baseURL |-> StringOr(existingOptions, "baseURL", apiBaseURL \o "/"),
                timeout |-> ValueOrDefault(existingOptions, "timeout", [num |-> 300000])])],
      models |-> [obj |-> Spread(existingModels, models)]]

buildProviderConfig(existing, models, apiBaseURL) ==
  LET existingProvider == ExistingProvider(TopLevel(existing))
      existingEnv == uniqueStrings(IF "env" \in DOMAIN existingProvider
                                   THEN existingProvider.env ELSE <<>>)
      existingOptions == asObject("options" \in DOMAIN existingProvider,
                                  IF "options" \in DOMAIN existingProvider
                                  THEN existingProvider.options ELSE Null)
  IN [npm |-> StringOr(existingProvider, "npm", "@crazy-goat/nexos-provider"),
      name |-> StringOr(existingProvider, "name", "Nexos AI"),
      env |-> uniqueStrings(<<[str |-> "NEXOS_API_KEY"]>> \o existingEnv),
      options |-> [obj |->
        Spread(existingOptions,
               [baseURL |-> StringOr(existingOptions, "baseURL", apiBaseURL \o "/"),
                timeout |-> ValueOrDefault(existingOptions, "timeout", [num |-> 300000])])],
      models |-> [obj |-> models]]

\* A builder that starts from an empty object instead of a copy of the
\* existing configuration.
buildConfigFromScratch(existing, providerConfig) ==
  LET cfg == TopLevel(existing)
      providers == IF "provider" \in DOMAIN cfg THEN cfg.provider ELSE EmptyObject
  IN With([x \in {"$schema"} |-> "https://opencode.ai/config.json"],
          "provider", With(providers, "nexos-ai", [obj |-> providerConfig]))

buildConfig(existing, providerConfig) ==
  LET cfg == TopLevel(existing)
      providers == IF "provider" \in DOMAIN cfg THEN cfg.provider ELSE EmptyObject
  IN With(Spread([x \in {"$schema"} |-> "https://opencode.ai/config.json"], cfg),
          "provider", With(providers, "nexos-ai", [obj |-> providerConfig]))

\* JSON.stringify leaves out a property whose value is a function.
SerializeModel(model) ==
  IF "cost" \in DOMAIN model /\ IsBuiltin(model.cost) THEN Without(model, {"cost"})
  ELSE model

SerializeModels(models) == [n \in DOMAIN models |-> SerializeModel(models[n])]

\* serializeConfig followed by a later JSON.parse: what the written file holds.
serializeConfig(cfg) ==
  LET block == cfg.provider["nexos-ai"].obj IN
  Json([obj |->
    [cfg EXCEPT !.provider = [@ EXCEPT !["nexos-ai"] =
      [obj |-> [block EXCEPT !.models = [obj |-> SerializeModels(block.models.obj)]]]]]])

-----------------------------------------------------------------------------
(* index.mjs: the command line *)

Undefined == [undefined |-> TRUE]

\* String(value) of a flag value: a string, or a boolean
StringOf(value) ==
  IF "str" \in DOMAIN value THEN value.str
  ELSE IF value.bool THEN "true" ELSE "false"

\* A parser that compares without lower-casing.
parseSupportedModelsFlagCaseSensitive(value) ==
  IF value = Undefined THEN TRUE
  ELSE StringOf(value) \notin {"false", "0", "no"}

parseSupportedModelsFlag(value) ==
  IF value = Undefined THEN TRUE
  ELSE LET lower == ToLowerCase(StringOf(value)) IN
       IF lower \in {"true", "1", "yes"} THEN TRUE
       ELSE IF lower \in {"false", "0", "no"} THEN FALSE
       ELSE TRUE

DefaultPath == "~/.config/opencode/opencode.json"

\* cliArgs.output || join(homedir(), ".config", "opencode", "opencode.json")
ConfigPath(args) ==
  IF "str" \in DOMAIN args.output /\ args.output.str # "" THEN args.output.str
  ELSE DefaultPath

\* process.env.NEXOS_BASE_URL || "https://api.nexos.ai/v1"
ApiBaseURL(environment) ==
  StringOr(environment, "NEXOS_BASE_URL", "https://api.nexos.ai/v1")

-----------------------------------------------------------------------------
(* The inputs of a run *)

\* Longest catalog the API returns.
MaxModels == 2

Environments ==
  {EmptyObject,
   [NEXOS_API_KEY |-> ""],
   [NEXOS_API_KEY |-> "nexos"],
   [NEXOS_API_KEY |-> "sk-nexos-1"],
   [NEXOS_API_KEY |-> "nexos", NEXOS_BASE_URL |-> "https://proxy.example/v1"],
   [NEXOS_API_KEY |-> "nexos-1"]}

CommandLines ==
  {[help |-> h, version |-> v, selectAgents |-> FALSE, customCosts |-> FALSE,
    output |-> Undefined, supportedModels |-> Undefined] :
      h \in BOOLEAN, v \in BOOLEAN}
  \cup
  {[help |-> FALSE, version |-> FALSE, selectAgents |-> s, customCosts |-> c,
    output |-> o, supportedModels |-> m] :
      s \in BOOLEAN, c \in BOOLEAN, o \in {Undefined, [str |-> "/custom/path.json"]},
      m \in {Undefined, [str |-> "False"]}}

\* Models of the catalog: objects { id, name?, context_window?, max_output_tokens? }
CatalogModels ==
  {[id |-> "gpt-5", name |-> "GPT 5", context_window |-> 400000,
    max_output_tokens |-> 128000],
   [id |-> "unknown-model", name |-> "Unknown Model", context_window |-> 500000],
   [id |-> "gemini-3-pro", name |-> "Gemini 3 Pro"],
   [id |-> "constructor"]}

RECURSIVE SeqsUpTo(_, _)
SeqsUpTo(S, n) ==
  IF n = 0 THEN {<<>>}
  ELSE LET shorter == SeqsUpTo(S, n - 1) IN
       shorter \cup {Append(q, x) : q \in shorter, x \in S}

Catalogs == SeqsUpTo(CatalogModels, MaxModels)

\* Responses of GET /models: a non-2xx status, a body without data, or a list.
Responses ==
  {[ok |-> FALSE], [ok |-> TRUE]} \cup {[ok |-> TRUE, data |-> d] : d \in Catalogs}

\* Provider blocks found in configuration files.
OtherProvider == [npm |-> "@ai-sdk/openai"]

CustomCost == [input |-> 10000, output |-> 20000]

StoredModelsA ==
  [n \in {"GPT 5", "Old Model"} |->
    IF n = "GPT 5"
    THEN [name |-> n, limit |-> [context |-> 400000, output |-> 128000],
          cost |-> CustomCost]
    ELSE [name |-> n, limit |-> [context |-> 128000, output |-> 64000],
          cost |-> DEFAULT_FALLBACK_COSTS]]

StoredModelsB ==
  [n \in {"Kimi K2.5", "Unknown Model", "GPT 5"} |->
    IF n = "Kimi K2.5" THEN [name |-> n, cost |-> [input |-> 10000]]
    ELSE IF n = "Unknown Model" THEN [name |-> n, cost |-> EmptyObject]
    ELSE [name |-> n]]

FullBlock(models) ==
  [npm |-> "custom-provider", name |-> "Custom Name",
   env |-> <<[str |-> "EXISTING_VAR"], [num |-> 1], [str |-> "NEXOS_API_KEY"],
             [str |-> "EXISTING_VAR"]>>,
   options |-> [obj |-> [baseURL |-> "https://existing.api.com/v1",
                         timeout |-> [num |-> 60000],
                         headers |-> "x-team: a"]],
   whitelist |-> "GPT 5",
   models |-> [obj |-> models]]

Agents ==
  [obj |-> [a \in {"plan", "review"} |->
     IF a = "plan" THEN [model |-> "anthropic/claude", description |-> "My planner"]
     ELSE [mode |-> "subagent"]]]

StoredConfigs ==
  {EmptyObject,
   [theme |-> "dark", agent |-> Agents,
    provider |-> [p \in {"openai"} |-> OtherProvider]],
   [theme |-> "dark", provider |-> [p \in {"nexos-ai"} |-> [str |-> "disabled"]]],
   [x \in {"$schema", "theme", "provider"} |->
     IF x = "provider"
     THEN [p \in {"openai", "nexos-ai"} |->
            IF p = "openai" THEN OtherProvider ELSE [obj |-> FullBlock(StoredModelsA)]]
     ELSE IF x = "theme" THEN "light" ELSE "https://example.com/schema.json"],
   [provider |-> [p \in {"nexos-ai"} |->
     [obj |-> [models |-> [obj |-> StoredModelsB], options |-> [str |-> "none"]]]]]}

FileContents ==
  {Missing, Garbage, Json(Null), Json([num |-> 5])}
  \cup {Json([obj |-> c]) : c \in StoredConfigs}

-----------------------------------------------------------------------------
(* index.mjs: main() *)

NoEditor == [running |-> "none"]
NoResult == EmptyResult
NoCall == [fn |-> "none"]

Init ==
  /\ registry = InitialRegistry
  /\ pc = "start"
  /\ exitCode = -1
  /\ exitReason = "running"
  /\ cliArgs \in CommandLines
  /\ env = EmptyObject
  /\ depsOk = FALSE
  /\ fetches = 0
  /\ files = EmptyObject
  /\ writes = <<>>
  /\ modelsList = <<>>
  /\ existingCosts = [obj |-> EmptyObject]
  /\ result = NoResult
  /\ existingConfig = [obj |-> EmptyObject]
  /\ config = EmptyObject
  /\ editor = NoEditor
  /\ call = NoCall
  /\ ret = NoCall

supportedModelsOnly == parseSupportedModelsFlag(cliArgs.supportedModels)

\* process.exit(code)
Exit(code, reason) ==
  /\ pc' = "exited"
  /\ exitCode' = code
  /\ exitReason' = reason

\* A path is read: what it holds is fixed from its first read on.
Reads(path, content) ==
  /\ path \in DOMAIN files => content = files[path]
  /\ path \notin DOMAIN files => content \in FileContents

\* main, up to the --help and --version exits
ParseArguments ==
  /\ pc = "start"
  /\ IF cliArgs.help THEN Exit(0, "help")
     ELSE IF cliArgs.version THEN Exit(0, "version")
     ELSE /\ pc' = "credential"
          /\ UNCHANGED <<exitCode, exitReason>>
  /\ UNCHANGED <<cliArgs, env, depsOk, fetches, files, writes, modelsList,
                 existingCosts, result, existingConfig, config, editor, call, ret, registry>>

\* A check of NEXOS_API_KEY that looks for "nexos-" anywhere in the key.
CheckCredentialIncludes ==
  /\ pc = "credential"
  /\ \E e \in Environments :
       /\ env' = e
       /\ IF "NEXOS_API_KEY" \notin DOMAIN e \/ e.NEXOS_API_KEY = ""
          THEN Exit(1, "credential missing")
          ELSE IF ~Includes(e.NEXOS_API_KEY, "nexos-")
          THEN Exit(1, "credential invalid")
          ELSE /\ pc' = "dependencies"
               /\ UNCHANGED <<exitCode, exitReason>>
  /\ UNCHANGED <<cliArgs, depsOk, fetches, files, writes, modelsList,
                 existingCosts, result, existingConfig, config, editor, call, ret, registry>>

\* main: the two checks of NEXOS_API_KEY
CheckCredential ==
  /\ pc = "credential"
  /\ \E e \in Environments :
       /\ env' = e
       /\ IF "NEXOS_API_KEY" \notin DOMAIN e \/ e.NEXOS_API_KEY = ""
          THEN Exit(1, "credential missing")
          ELSE IF ~StartsWith(e.NEXOS_API_KEY, "nexos-")
          THEN Exit(1, "credential invalid")
          ELSE /\ pc' = "dependencies"
               /\ UNCHANGED <<exitCode, exitReason>>
  /\ UNCHANGED <<cliArgs, depsOk, fetches, files, writes, modelsList,
                 existingCosts, result, existingConfig, config, editor, call, ret, registry>>

checkDependencies ==
  /\ pc = "dependencies"
  /\ \E found \in BOOLEAN :
       /\ depsOk' = found
       /\ IF found
          THEN /\ pc' = "fetch"
               /\ UNCHANGED <<exitCode, exitReason>>
          ELSE Exit(1, "dependency missing")
  /\ UNCHANGED <<cliArgs, env, fetches, files, writes, modelsList,
                 existingCosts, result, existingConfig, config, editor, call, ret, registry>>

fetchModelsFromApi ==
  /\ pc = "fetch"
  /\ fetches' = fetches + 1
  /\ \E res \in Responses :
       IF ~res.ok
       THEN /\ Exit(1, "catalog response not ok")
            /\ UNCHANGED modelsList
       ELSE /\ modelsList' = SortModels(IF "data" \in DOMAIN res THEN res.data ELSE <<>>)
            /\ pc' = "fetched"
            /\ UNCHANGED <<exitCode, exitReason>>
  /\ UNCHANGED <<cliArgs, env, depsOk, files, writes,
                 existingCosts, result, existingConfig, config, editor, call, ret, registry>>

\* An empty catalog treated as an error: process.exit(1).
NoModelsFoundFails ==
  /\ pc = "fetched"
  /\ Len(modelsList) = 0
  /\ Exit(1, "no models")
  /\ UNCHANGED <<cliArgs, env, depsOk, fetches, files, writes, modelsList,
                 existingCosts, result, existingConfig, config, editor, call, ret, registry>>

\* main: if (modelsList.length === 0) process.exit(0)
NoModelsFound ==
  /\ pc = "fetched"
  /\ Len(modelsList) = 0
  /\ Exit(0, "no models")
  /\ UNCHANGED <<cliArgs, env, depsOk, fetches, files, writes, modelsList,
                 existingCosts, result, existingConfig, config, editor, call, ret, registry>>

\* main: existingCosts = await getExistingModelCosts(), which reads the default
\* path. What the path holds is remembered when the run reads it again.
LoadExistingCosts ==
  /\ pc = "fetched"
  /\ Len(modelsList) > 0
  /\ \E content \in FileContents :
       /\ Reads(DefaultPath, content)
       /\ files' = IF ConfigPath(cliArgs) = DefaultPath
                   THEN With(files, DefaultPath, content) ELSE files
       /\ existingCosts' = getExistingModelCosts(content)
  /\ pc' = "process"
  /\ UNCHANGED <<exitCode, exitReason, cliArgs, env, depsOk, fetches, writes,
                 modelsList, result, existingConfig, config, editor, call, ret, registry>>

ProcessModels ==
  /\ pc = "process"
  /\ result' = processModels(modelsList, existingCosts, supportedModelsOnly)
  /\ pc' = "load"
  /\ UNCHANGED <<exitCode, exitReason, cliArgs, env, depsOk, fetches, files, writes,
                 modelsList, existingCosts, existingConfig, config, editor, call, ret, registry>>

\* main: existingConfig = await loadExistingConfig(configPath)
LoadExistingConfig ==
  /\ pc = "load"
  /\ \E content \in FileContents :
       /\ Reads(ConfigPath(cliArgs), content)
       /\ files' = With(files, ConfigPath(cliArgs), content)
       /\ existingConfig' = loadExistingConfig(content)
  /\ pc' = "build"
  /\ UNCHANGED <<exitCode, exitReason, cliArgs, env, depsOk, fetches, writes,
                 modelsList, existingCosts, result, config, editor, call, ret, registry>>

\* main: buildProviderConfig and buildConfig; an exception rejects main(), and
\* the process ends with code 1.
BuildConfiguration ==
  /\ pc = "build"
  /\ IF BuildThrows(existingConfig)
     THEN /\ pc' = "crashed"
          /\ exitCode' = 1
          /\ exitReason' = "TypeError"
          /\ UNCHANGED config
     ELSE /\ config' = buildConfig(existingConfig,
                         buildProviderConfig(existingConfig, result.models, ApiBaseURL(env)))
          /\ pc' = "save"
          /\ UNCHANGED <<exitCode, exitReason>>
  /\ UNCHANGED <<cliArgs, env, depsOk, fetches, files, writes, modelsList,
                 existingCosts, result, existingConfig, editor, call, ret, registry>>

\* writeFile(configPath, serializeConfig(config))
WriteConfig ==
  /\ writes' = Append(writes, [path |-> ConfigPath(cliArgs), content |-> serializeConfig(config)])
  /\ files' = With(files, ConfigPath(cliArgs), serializeConfig(config))

\* main: await saveConfig(config, configPath)
SaveConfig ==
  /\ pc = "save"
  /\ WriteConfig
  /\ pc' = "agents"
  /\ UNCHANGED <<exitCode, exitReason, cliArgs, env, depsOk, fetches, modelsList,
                 existingCosts, result, existingConfig, config, editor, call, ret, registry>>

-----------------------------------------------------------------------------
(* index.mjs: selectAgentModels *)

DEFAULT_AGENTS == <<"build", "build-fast", "build-heavy", "plan">>

AGENT_DEFAULTS ==
  [plan |->
    [description |-> "Read-only planning agent with bash access",
     permission |-> [edit |-> "deny", bash |-> "allow", read |-> "allow",
                     glob |-> "allow", grep |-> "allow", task |-> "allow",
                     webfetch |-> "allow"]]]

\* config.agent after: if (!config.agent || typeof config.agent !== "object") config.agent = {}
AgentsOf(cfg) ==
  IF "agent" \in DOMAIN cfg /\ "obj" \in DOMAIN cfg.agent THEN cfg.agent.obj
  ELSE EmptyObject

\* The keys of an object holding agents, in a fixed order of insertion.
RECURSIVE KeysInOrder(_)
KeysInOrder(keys) ==
  IF keys = {} THEN <<>>
  ELSE LET k == CHOOSE x \in keys : \A y \in keys : LocaleCompare(x, y) <= 0
       IN <<k>> \o KeysInOrder(keys \ {k})

\* [...new Set([...DEFAULT_AGENTS, ...existingAgents])]
RECURSIVE AppendNew(_, _)
AppendNew(out, more) ==
  IF more = <<>> THEN out
  ELSE AppendNew(IF Head(more) \in SeqToSet(out) THEN out ELSE Append(out, Head(more)),
                 Tail(more))

AllAgentNames(existingAgents) == AppendNew(DEFAULT_AGENTS, existingAgents)

FilterSeq(seq, keep) ==
  LET F[i \in 0..Len(seq)] ==
        IF i = 0 THEN <<>>
        ELSE IF seq[i] \in keep THEN Append(F[i - 1], seq[i]) ELSE F[i - 1]
  IN F[Len(seq)]

\* What the user ticks in the checkbox: nothing, the agents ticked at the
\* start (the existing ones), or every agent.
CheckboxAnswers(existingAgents) ==
  {<<>>,
   FilterSeq(AllAgentNames(existingAgents), SeqToSet(existingAgents)),
   AllAgentNames(existingAgents)}

HasModel(agents, agentName) ==
  /\ agentName \in DOMAIN agents
  /\ "model" \in DOMAIN agents[agentName]
  /\ agents[agentName].model # ""

\* modelNames.map(name => ({ name, value: `${providerName}/${name}` }))
RECURSIVE CatalogChoices(_, _)
CatalogChoices(names, providerName) ==
  IF names = <<>> THEN <<>>
  ELSE <<[name |-> Head(names), value |-> providerName \o "/" \o Head(names)]>>
       \o CatalogChoices(Tail(names), providerName)

\* The first loop over the selected agents: a current model that is not a
\* choice yet is put in front.
RECURSIVE WithCurrentModels(_, _, _)
WithCurrentModels(choices, selected, agents) ==
  IF selected = <<>> THEN choices
  ELSE LET a == Head(selected)
           missing == /\ HasModel(agents, a)
                      /\ ~\E i \in 1..Len(choices) : choices[i].value = agents[a].model
       IN WithCurrentModels(
            IF missing
            THEN <<[name |-> agents[a].model, value |-> agents[a].model]>> \o choices
            ELSE choices,
            Tail(selected), agents)

\* A loop that applies the registered defaults over what the record holds.
PreparedAgentOverwriting(agents, agentName) ==
  LET rec == IF agentName \in DOMAIN agents THEN agents[agentName] ELSE EmptyObject
      defaults == IF agentName \in DOMAIN AGENT_DEFAULTS
                  THEN AGENT_DEFAULTS[agentName] ELSE EmptyObject
  IN Spread(rec, defaults)

\* The agent's record when its prompt is shown: created if absent, and given
\* the defaults registered for its name in the fields that are unset.
PreparedAgent(agents, agentName) ==
  LET rec == IF agentName \in DOMAIN agents THEN agents[agentName] ELSE EmptyObject
      defaults == IF agentName \in DOMAIN AGENT_DEFAULTS
                  THEN AGENT_DEFAULTS[agentName] ELSE EmptyObject
      unset(f) == f \notin DOMAIN rec \/ (f = "description" /\ rec[f] = "")
  IN Spread(rec, [f \in {g \in DOMAIN defaults : unset(g)} |-> defaults[f]])

\* The default of an agent's search prompt: the choice whose value is the
\* current model, if there is one.
SearchDefault(choices, rec) ==
  LET currentModel == IF "model" \in DOMAIN rec /\ rec.model # "" THEN rec.model
                      ELSE "(not set)"
  IN {choices[i].value : i \in {j \in 1..Len(choices) : choices[j].value = currentModel}}

\* What the user picks in a search prompt: the first choice, or the default.
SearchAnswers(choices, default) ==
  (IF choices = <<>> THEN {} ELSE {choices[1].value}) \cup default

-----------------------------------------------------------------------------
(* index.mjs: configureCustomCosts *)

IsDigit(c) == c \in {"0", "1", "2", "3", "4", "5", "6", "7", "8", "9"}
DigitValue(c) ==
  LET Digits == "0123456789"
  IN (CHOOSE i \in 1..Len(Digits) : CharAt(Digits, i) = c) - 1

\* The digits s starts with.
RECURSIVE LeadingDigits(_)
LeadingDigits(s) ==
  IF Len(s) > 0 /\ IsDigit(CharAt(s, 1))
  THEN CharAt(s, 1) \o LeadingDigits(SubSeq(s, 2, Len(s)))
  ELSE ""

RECURSIVE DigitsValue(_, _)
DigitsValue(s, acc) ==
  IF Len(s) = 0 THEN acc
  ELSE DigitsValue(SubSeq(s, 2, Len(s)), 10 * acc + DigitValue(CharAt(s, 1)))

\* The first three decimals of a fraction, in thousandths.
Thousandths(frac) ==
  DigitsValue(SubSeq(frac \o "000", 1, 3), 0)

\* Infinity, as the largest number of the model.
Infinity == 2147483646 + 1

\* parseFloat(s) of an unsigned decimal string, in thousandths: [nan |-> TRUE]
\* or [num |-> n]. It reads the longest numeric prefix: "Infinity", or digits,
\* then "." and digits.
parseFloat(s) ==
  IF StartsWith(s, "Infinity") THEN [num |-> Infinity]
  ELSE LET whole == LeadingDigits(s)
           rest == SubSeq(s, Len(whole) + 1, Len(s))
           frac == IF StartsWith(rest, ".") THEN LeadingDigits(SubSeq(rest, 2, Len(rest)))
                   ELSE ""
       IN IF Len(whole) = 0 /\ Len(frac) = 0 THEN [nan |-> TRUE]
          ELSE [num |-> 1000 * DigitsValue(whole, 0) + Thousandths(frac)]

CostFields == <<"input", "output", "cache_read", "cache_write">>

\* One field of the new cost: the number entered, else the current value.
\* (newValue !== '' && !isNaN(parseFloat(newValue)))
NewCostField(currentCost, field, answer) ==
  IF answer # "" /\ "nan" \notin DOMAIN parseFloat(answer)
  THEN [f \in {field} |-> parseFloat(answer).num]
  ELSE IF field \in DOMAIN currentCost
       THEN [f \in {field} |-> currentCost[field]]
       ELSE EmptyObject

\* The cost object built from the four answers.
NewCost(currentCost, answers) ==
  Spread(Spread(NewCostField(currentCost, CostFields[1], answers[1]),
                NewCostField(currentCost, CostFields[2], answers[2])),
         Spread(NewCostField(currentCost, CostFields[3], answers[3]),
                NewCostField(currentCost, CostFields[4], answers[4])))

\* modelsConfig[selectedModel]?.cost || {}
CurrentCost(models, selectedModel) ==
  IF selectedModel \in DOMAIN models /\ "cost" \in DOMAIN models[selectedModel]
  THEN models[selectedModel].cost
  ELSE EmptyObject

\* An editor that puts a record holding the cost alone in the place of the
\* model's record.
WithNewCostAlone(models, selectedModel, answers) ==
  LET cost == NewCost(CurrentCost(models, selectedModel), answers) IN
  IF DOMAIN cost = {} THEN models
  ELSE With(models, selectedModel, [cost |-> cost])

\* The models object after the four inputs for selectedModel: a cost object
\* with at least one field is written onto the model.
WithNewCost(models, selectedModel, answers) ==
  LET cost == NewCost(CurrentCost(models, selectedModel), answers) IN
  IF DOMAIN cost = {} THEN models
  ELSE With(models, selectedModel,
            With(IF selectedModel \in DOMAIN models THEN models[selectedModel]
                 ELSE EmptyObject,
                 "cost", cost))

\* What the user types into the four inputs of one model: nothing, a new
\* output price only, or new prices with one that is not a number; in a
\* session of the editor called on its own also Infinity, and digits followed
\* by letters.
NoAnswers == <<"", "", "", "">>

CostAnswers ==
  {NoAnswers, <<"", "25", "", "">>, <<"10", "20", "0.5", "x">>}
  \cup IF call = NoCall THEN {} ELSE {<<"Infinity", "", "", "12abc">>}

-----------------------------------------------------------------------------
(* index.mjs: main(), the interactive editors *)

ModelsOf(cfg) == cfg.provider["nexos-ai"].obj.models.obj

WithModels(cfg, models) ==
  [cfg EXCEPT !.provider = [@ EXCEPT !["nexos-ai"] =
    [obj |-> [@.obj EXCEPT !.models = [obj |-> models]]]]]

SkipAgents ==
  /\ pc = "agents"
  /\ ~cliArgs.selectAgents
  /\ pc' = "costs"
  /\ UNCHANGED <<exitCode, exitReason, cliArgs, env, depsOk, fetches, files, writes,
                 modelsList, existingCosts, result, existingConfig, config, editor,
                 call, ret, registry>>

\* selectAgentModels, up to its first prompt
\* An editor that shows the checkbox whether or not agents exist.
StartAgentsAlwaysAsking ==
  /\ pc = "agents"
  /\ cliArgs.selectAgents
  /\ config' = With(config, "agent", [obj |-> AgentsOf(config)])
  /\ editor' = [running |-> "agents", selected |-> <<>>, next |-> 1,
                allChoices |-> <<>>]
  /\ pc' = "agent checkbox"
  /\ UNCHANGED <<exitCode, exitReason, cliArgs, env, depsOk, fetches, files, writes,
                 modelsList, existingCosts, result, existingConfig, call, ret, registry>>

StartAgents ==
  /\ pc = "agents"
  /\ cliArgs.selectAgents
  /\ config' = With(config, "agent", [obj |-> AgentsOf(config)])
  /\ LET existingAgents == KeysInOrder(DOMAIN AgentsOf(config)) IN
     IF existingAgents = <<>>
     THEN /\ editor' = [running |-> "agents", selected |-> DEFAULT_AGENTS, next |-> 1,
                        allChoices |-> WithCurrentModels(
                          CatalogChoices(result.modelNames, "nexos-ai"),
                          DEFAULT_AGENTS, AgentsOf(config))]
          /\ pc' = "agent search"
     ELSE /\ editor' = [running |-> "agents", selected |-> <<>>, next |-> 1,
                        allChoices |-> <<>>]
          /\ pc' = "agent checkbox"
  /\ UNCHANGED <<exitCode, exitReason, cliArgs, env, depsOk, fetches, files, writes,
                 modelsList, existingCosts, result, existingConfig, call, ret, registry>>

\* A checkbox that, answered with no agent, empties config.agent before it
\* returns false.
AnswerCheckboxClearing ==
  /\ pc = "agent checkbox"
  /\ \E selectedAgents \in CheckboxAnswers(KeysInOrder(DOMAIN AgentsOf(config))) :
       IF selectedAgents = <<>>
       THEN /\ editor' = NoEditor
            /\ config' = With(config, "agent", [obj |-> EmptyObject])
            /\ pc' = "costs"
       ELSE /\ editor' = [editor EXCEPT
                 !.selected = selectedAgents,
                 !.allChoices = WithCurrentModels(
                    CatalogChoices(result.modelNames, "nexos-ai"),
                    selectedAgents, AgentsOf(config))]
            /\ config' = config
            /\ pc' = "agent search"
  /\ UNCHANGED <<exitCode, exitReason, cliArgs, env, depsOk, fetches, files, writes,
                 modelsList, existingCosts, result, existingConfig, call, ret, registry>>

\* selectAgentModels: the checkbox is answered
AnswerCheckbox ==
  /\ pc = "agent checkbox"
  /\ \E selectedAgents \in CheckboxAnswers(KeysInOrder(DOMAIN AgentsOf(config))) :
       IF selectedAgents = <<>>
       THEN /\ editor' = NoEditor
            /\ pc' = "costs"
       ELSE /\ editor' = [editor EXCEPT
                 !.selected = selectedAgents,
                 !.allChoices = WithCurrentModels(
                    CatalogChoices(result.modelNames, "nexos-ai"),
                    selectedAgents, AgentsOf(config))]
            /\ pc' = "agent search"
  /\ UNCHANGED <<exitCode, exitReason, cliArgs, env, depsOk, fetches, files, writes,
                 modelsList, existingCosts, result, existingConfig, config, call, ret, registry>>

\* An editor that returns false when no answer differed from the model the
\* agent had.
AnswerAgentSearchReportingChanges ==
  /\ pc = "agent search"
  /\ LET agentName == editor.selected[editor.next]
         prepared == PreparedAgent(AgentsOf(config), agentName)
     IN \E selected \in SearchAnswers(editor.allChoices,
                                      SearchDefault(editor.allChoices, prepared)) :
          config' = With(config, "agent",
                         [obj |-> With(AgentsOf(config), agentName,
                                       With(prepared, "model", selected))])
  /\ IF editor.next = Len(editor.selected)
     THEN /\ pc' = IF config' = call.config THEN "costs" ELSE "agents save"
          /\ editor' = NoEditor
     ELSE /\ pc' = "agent search"
          /\ editor' = [editor EXCEPT !.next = @ + 1]
  /\ UNCHANGED <<exitCode, exitReason, cliArgs, env, depsOk, fetches, files, writes,
                 modelsList, existingCosts, result, existingConfig, call, ret, registry>>

\* selectAgentModels: one round of the second loop, the search prompt of the
\* next selected agent is answered
AnswerAgentSearch ==
  /\ pc = "agent search"
  /\ LET agentName == editor.selected[editor.next]
         prepared == PreparedAgent(AgentsOf(config), agentName)
     IN \E selected \in SearchAnswers(editor.allChoices,
                                      SearchDefault(editor.allChoices, prepared)) :
          config' = With(config, "agent",
                         [obj |-> With(AgentsOf(config), agentName,
                                       With(prepared, "model", selected))])
  /\ IF editor.next = Len(editor.selected)
     THEN /\ pc' = "agents save"
          /\ editor' = NoEditor
     ELSE /\ pc' = "agent search"
          /\ editor' = [editor EXCEPT !.next = @ + 1]
  /\ UNCHANGED <<exitCode, exitReason, cliArgs, env, depsOk, fetches, files, writes,
                 modelsList, existingCosts, result, existingConfig, call, ret, registry>>

\* A main that does not write after the agent editor returned true.
SaveAgentsSkipped ==
  /\ pc = "agents save"
  /\ pc' = "costs"
  /\ UNCHANGED <<exitCode, exitReason, cliArgs, env, depsOk, fetches, files, writes,
                 modelsList, existingCosts, result, existingConfig, config, editor,
                 call, ret, registry>>

\* main: selectAgentModels returned true
SaveAgents ==
  /\ pc = "agents save"
  /\ WriteConfig
  /\ pc' = "costs"
  /\ UNCHANGED <<exitCode, exitReason, cliArgs, env, depsOk, fetches, modelsList,
                 existingCosts, result, existingConfig, config, editor, call, ret, registry>>

SkipCosts ==
  /\ pc = "costs"
  /\ ~cliArgs.customCosts
  /\ pc' = "finish"
  /\ UNCHANGED <<exitCode, exitReason, cliArgs, env, depsOk, fetches, files, writes,
                 modelsList, existingCosts, result, existingConfig, config, editor,
                 call, ret, registry>>

\* Object.keys(modelsConfig), filtered when supportedModelsOnly
AvailableModels(modelNames, supportedOnly) ==
  IF supportedOnly THEN FilterSeq(modelNames, {n \in SeqToSet(modelNames) : isModelSupported(n)})
  ELSE modelNames

\* configureCustomCosts, up to its first prompt
StartCosts ==
  /\ pc = "costs"
  /\ cliArgs.customCosts
  /\ IF AvailableModels(result.modelNames, supportedModelsOnly) = <<>>
     THEN /\ pc' = "finish"
          /\ UNCHANGED editor
     ELSE /\ pc' = "cost search"
          /\ editor' = [running |-> "costs", hasChanges |-> FALSE, selectedModel |-> "",
                        answers |-> NoAnswers,
                        availableModels |-> AvailableModels(result.modelNames,
                                                            supportedModelsOnly)]
  /\ UNCHANGED <<exitCode, exitReason, cliArgs, env, depsOk, fetches, files, writes,
                 modelsList, existingCosts, result, existingConfig, config, call, ret, registry>>

\* configureCustomCosts returns hasChanges
EndCosts ==
  /\ pc' = IF editor.hasChanges THEN "costs save" ELSE "finish"
  /\ editor' = NoEditor

\* configureCustomCosts: the search prompt is answered with "Done" or a model
AnswerCostSearch ==
  /\ pc = "cost search"
  /\ \/ EndCosts
     \/ \E m \in SeqToSet(editor.availableModels) :
          /\ editor' = [editor EXCEPT !.selectedModel = m]
          /\ pc' = "cost inputs"
  /\ UNCHANGED <<exitCode, exitReason, cliArgs, env, depsOk, fetches, files, writes,
                 modelsList, existingCosts, result, existingConfig, config, call, ret, registry>>

\* An editor that asks for another model only after it has written a cost.
AnswerCostInputsConfirmingWrites ==
  /\ pc = "cost inputs"
  /\ \E answers \in CostAnswers :
       LET models == WithNewCost(ModelsOf(config), editor.selectedModel, answers) IN
       /\ config' = WithModels(config, models)
       /\ result' = [result EXCEPT !.models = models]
       /\ editor' = [editor EXCEPT
                       !.answers = answers,
                       !.hasChanges = @ \/ models # ModelsOf(config)]
       /\ pc' = IF models # ModelsOf(config) THEN "cost confirm" ELSE "cost search"
  /\ UNCHANGED <<exitCode, exitReason, cliArgs, env, depsOk, fetches, files, writes,
                 modelsList, existingCosts, existingConfig, call, ret, registry>>

\* configureCustomCosts: the four inputs are answered and the cost is written.
\* models and config.provider["nexos-ai"].models are one object.
AnswerCostInputs ==
  /\ pc = "cost inputs"
  /\ \E answers \in CostAnswers :
       LET models == WithNewCost(ModelsOf(config), editor.selectedModel, answers) IN
       /\ config' = WithModels(config, models)
       /\ result' = [result EXCEPT !.models = models]
       /\ editor' = [editor EXCEPT
                       !.answers = answers,
                       !.hasChanges =
                         @ \/ DOMAIN NewCost(CurrentCost(ModelsOf(config),
                                                         editor.selectedModel),
                                             answers) # {}]
  /\ pc' = "cost confirm"
  /\ UNCHANGED <<exitCode, exitReason, cliArgs, env, depsOk, fetches, files, writes,
                 modelsList, existingCosts, existingConfig, call, ret, registry>>

\* configureCustomCosts: "Set costs for another model?"
AnswerConfirm ==
  /\ pc = "cost confirm"
  /\ \/ /\ pc' = "cost search"
        /\ editor' = [editor EXCEPT !.answers = NoAnswers]
     \/ EndCosts
  /\ UNCHANGED <<exitCode, exitReason, cliArgs, env, depsOk, fetches, files, writes,
                 modelsList, existingCosts, result, existingConfig, config, call, ret, registry>>

\* main: configureCustomCosts returned true
SaveCosts ==
  /\ pc = "costs save"
  /\ WriteConfig
  /\ pc' = "finish"
  /\ UNCHANGED <<exitCode, exitReason, cliArgs, env, depsOk, fetches, modelsList,
                 existingCosts, result, existingConfig, config, editor, call, ret, registry>>

\* A prompt is closed without an answer: it rejects, main() rejects, and the
\* process ends with code 1.
PromptRejected ==
  /\ pc \in {"agent checkbox", "agent search", "cost search", "cost inputs", "cost confirm"}
  /\ pc' = "crashed"
  /\ exitCode' = 1
  /\ exitReason' = "prompt rejected"
  /\ UNCHANGED <<cliArgs, env, depsOk, fetches, files, writes, modelsList,
                 existingCosts, result, existingConfig, config, editor, call, ret, registry>>

\* main returns
Finish ==
  /\ pc = "finish"
  /\ pc' = "done"
  /\ exitCode' = 0
  /\ exitReason' = "success"
  /\ UNCHANGED <<cliArgs, env, depsOk, fetches, files, writes, modelsList,
                 existingCosts, result, existingConfig, config, editor, call, ret, registry>>

Next ==
  \/ ParseArguments
  \/ CheckCredential
  \/ checkDependencies
  \/ fetchModelsFromApi
  \/ NoModelsFound
  \/ LoadExistingCosts
  \/ ProcessModels
  \/ LoadExistingConfig
  \/ BuildConfiguration
  \/ SaveConfig
  \/ SkipAgents
  \/ StartAgents
  \/ AnswerCheckbox
  \/ AnswerAgentSearch
  \/ SaveAgents
  \/ SkipCosts
  \/ StartCosts
  \/ AnswerCostSearch
  \/ AnswerCostInputs
  \/ AnswerConfirm
  \/ SaveCosts
  \/ PromptRejected
  \/ Finish

Spec == Init /\ [][Next]_vars

-----------------------------------------------------------------------------
(* The exported functions, called on their own *)

FnNames ==
  DOMAIN SUPPORTED_MODELS
  \cup {"Unknown Model", "Gemini 3 Pro", "gpt 5", "constructor", "toString"}

\* existingCosts arguments: absent, empty, or one entry of some shape
FnCosts ==
  LET FnCostObjects ==
      {EmptyObject} \cup
      {[n \in {name} |-> cost] :
      name \in {"GPT 5", "Unknown Model", "constructor"},
      cost \in {CustomCost, [input |-> 10000], EmptyObject}}
  IN {Undefined} \cup {[obj |-> c] : c \in FnCostObjects}

\* modelsList arguments: registry names, unknown names, names with the
\* privacy marker, "embedding" or a skip prefix, alone and combined, given by
\* name or by id only.
FnCatalogs ==
  LET FnCatalogModels ==
        {[id |-> "gpt-5", name |-> "GPT 5"],
         [id |-> "unknown-model", name |-> "Unknown Model", max_output_tokens |-> 100000],
         [id |-> "gemini-3-pro", name |-> "Gemini 3 Pro"],
         [id |-> "text-embedding-3-large", name |-> "Text-Embedding-3-Large"],
         [id |-> "gemini-3-embedding", name |-> "Gemini 3 Embedding"],
         [id |-> "gpt-5-no-pii", name |-> "GPT 5 (No PII)"],
         [id |-> "gemini-3-flash-no-pii", name |-> "Gemini 3 Flash (No PII)"],
         [id |-> "Claude Opus 4.5 (No PII)"],
         [id |-> "Gemini 3 Flash"],
         [id |-> "Kimi K2.5", name |-> ""],
         [id |-> "constructor"]}
  IN SeqsUpTo(FnCatalogModels, MaxModels)

FnProcessCosts ==
  {Undefined, [obj |-> EmptyObject], [obj |-> CostsOf(StoredModelsA)],
   [obj |-> CostsOf(StoredModelsB)]}

\* Provider blocks buildProviderConfig finds: env lists with repeated, foreign
\* and non-string entries, options with and without baseURL and timeout, with
\* a timeout of 0 or null, with an empty npm, and options that are no object.
FnEnvLists ==
  {<<>>,
   <<[str |-> "A"], [str |-> "B"], [str |-> "A"]>>,
   <<[str |-> "B"], [str |-> "NEXOS_API_KEY"], [num |-> 1], [str |-> "A"], [str |-> "B"]>>}

FnOptions ==
  {[obj |-> EmptyObject],
   [obj |-> [baseURL |-> "https://existing.api.com/", timeout |-> [num |-> 60000]]],
   [obj |-> [baseURL |-> "https://existing.api.com/v1", timeout |-> [num |-> 0],
             headers |-> "x-team: a"]],
   [obj |-> [baseURL |-> "", timeout |-> Null, headers |-> "x-team: a"]],
   [str |-> "none"]}

FnProviderBlocks ==
  {EmptyObject, FullBlock(StoredModelsA), [npm |-> "", name |-> "Custom Name"]}
  \cup {[env |-> e] : e \in FnEnvLists}
  \cup {[npm |-> "custom-provider", options |-> o] : o \in FnOptions}

\* Parsed configurations buildProviderConfig is given.
FnExistingConfigs ==
  {Null, [num |-> 5], [obj |-> EmptyObject],
   [obj |-> [provider |-> [p \in {"nexos-ai"} |-> [str |-> "disabled"]]]]}
  \cup {[obj |-> [provider |-> [p \in {"nexos-ai"} |-> [obj |-> b]]]] :
          b \in FnProviderBlocks}

FnModelMaps == {EmptyObject, processModels(<<[id |-> "gpt-5", name |-> "GPT 5"]>>,
                                           Undefined, TRUE).models}

FnBaseURLs == {"https://api.nexos.ai/v1", "https://proxy.example/v1/"}

\* The calls made: a function and its arguments.
FnCalls ==
  {[fn |-> "getModelCost", displayName |-> name, existingCosts |-> costs] :
     name \in FnNames, costs \in FnCosts}
  \cup
  {[fn |-> "processModels", modelsList |-> list, existingCosts |-> costs,
    supportedModelsOnly |-> only] :
     list \in FnCatalogs, costs \in FnProcessCosts, only \in BOOLEAN}
  \cup
  {[fn |-> "getModelLimit", displayName |-> name, apiModel |-> hints] :
     name \in FnNames,
     hints \in {Null, EmptyObject,
                [context_window |-> 500000, max_output_tokens |-> 100000],
                [context_window |-> 500000], [max_output_tokens |-> 100000],
                [context_window |-> 0, max_output_tokens |-> 100000],
                [context_window |-> 500000, max_output_tokens |-> 0]}}
  \cup
  {[fn |-> "parseSupportedModelsFlag", value |-> value] :
     value \in {Undefined, [bool |-> TRUE], [bool |-> FALSE]} \cup
               {[str |-> s] : s \in {"", "true", "TRUE", "True", "1", "yes", "YES",
                                      "false", "FALSE", "False", "fAlSe", "0", "no",
                                      "NO", "No", "random", "abc", "00", "not",
                                      "false ", "off", "n"}}}
  \cup
  {[fn |-> "buildProviderConfig", existingConfig |-> existing, models |-> models,
    apiBaseURL |-> url] :
     existing \in FnExistingConfigs, models \in FnModelMaps, url \in FnBaseURLs}

FnInit ==
  /\ registry = InitialRegistry
  /\ pc = "pure"
  /\ exitCode = -1
  /\ exitReason = "running"
  /\ cliArgs = [help |-> FALSE, version |-> FALSE, selectAgents |-> FALSE,
                customCosts |-> FALSE, output |-> Undefined,
                supportedModels |-> Undefined]
  /\ env = EmptyObject
  /\ depsOk = FALSE
  /\ fetches = 0
  /\ files = EmptyObject
  /\ writes = <<>>
  /\ modelsList = <<>>
  /\ existingCosts = [obj |-> EmptyObject]
  /\ result = NoResult
  /\ existingConfig = [obj |-> EmptyObject]
  /\ config = EmptyObject
  /\ editor = NoEditor
  /\ call \in FnCalls
  /\ ret = NoCall

\* The function returns: ret holds what it returned.
Returns(value) ==
  /\ ret = NoCall
  /\ ret' = [value |-> value]
  /\ UNCHANGED <<pc, exitCode, exitReason, cliArgs, env, depsOk, fetches, files, writes,
                 modelsList, existingCosts, result, existingConfig, config, editor, call,
                 registry>>

Returned(fn) == call.fn = fn /\ ret # NoCall

CallGetModelCost ==
  /\ call.fn = "getModelCost"
  /\ Returns(getModelCost(call.displayName, call.existingCosts))

\* getModelLimit returns; warned tells whether it wrote its warning.
CallGetModelLimit ==
  /\ call.fn = "getModelLimit"
  /\ ret = NoCall
  /\ ret' = [value |-> getModelLimit(call.displayName, call.apiModel),
             warned |-> getModelLimitWarns(call.displayName)]
  /\ UNCHANGED <<pc, exitCode, exitReason, cliArgs, env, depsOk, fetches, files, writes,
                 modelsList, existingCosts, result, existingConfig, config, editor, call,
                 registry>>

CallParseSupportedModelsFlag ==
  /\ call.fn = "parseSupportedModelsFlag"
  /\ Returns(parseSupportedModelsFlag(call.value))

CallProcessModels ==
  /\ call.fn = "processModels"
  /\ Returns(processModels(call.modelsList, call.existingCosts, call.supportedModelsOnly))

\* The function throws: ret holds the exception.
Throws(error) ==
  /\ ret = NoCall
  /\ ret' = [throws |-> error]
  /\ UNCHANGED <<pc, exitCode, exitReason, cliArgs, env, depsOk, fetches, files, writes,
                 modelsList, existingCosts, result, existingConfig, config, editor, call,
                 registry>>

ReturnedValue(fn) == Returned(fn) /\ "value" \in DOMAIN ret

CallBuildProviderConfig ==
  /\ call.fn = "buildProviderConfig"
  /\ IF BuildThrows(call.existingConfig)
     THEN Throws("TypeError")
     ELSE Returns(buildProviderConfig(call.existingConfig, call.models, call.apiBaseURL))

FnNext ==
  \/ CallGetModelCost
  \/ CallGetModelLimit
  \/ CallParseSupportedModelsFlag
  \/ CallProcessModels
  \/ CallBuildProviderConfig

FnSpec == FnInit /\ [][FnNext]_vars


-----------------------------------------------------------------------------
(* models.config.mjs: a caller that looks values up and changes them in place *)

RegNames == {"GPT 5", "Unknown Model", "constructor"}

\* What a caller reads: the five getters and the two legacy exports.
RegReads ==
  {"getModelConfig", "getModelLimit", "getModelCost", "getModelVariants",
   "getModelOptions", "modelLimitsOverrides", "modelCostsDefaults"}

\* The value a read yields. The optional results are undefined when there is
\* nothing to return; the legacy exports hold the limit and the cost of every
\* registry entry under its name.
ReadValue(fn, displayName) ==
  LET cfg == getModelConfig(displayName)
      own == displayName \in DOMAIN registry.SUPPORTED_MODELS
  IN CASE fn = "getModelConfig" -> cfg
       [] fn = "getModelLimit" -> getModelLimit(displayName, EmptyObject)
       [] fn = "getModelCost" -> getModelCost(displayName, Undefined)
       [] fn = "getModelVariants" ->
            IF getModelVariants(displayName) = EmptyObject THEN Undefined
            ELSE getModelVariants(displayName).variants
       [] fn = "getModelOptions" ->
            IF getModelOptions(displayName) = EmptyObject THEN Undefined
            ELSE getModelOptions(displayName).options
       [] fn = "modelLimitsOverrides" ->
            IF own /\ "limit" \in DOMAIN cfg THEN cfg.limit ELSE Undefined
       [] fn = "modelCostsDefaults" ->
            IF own /\ "cost" \in DOMAIN cfg THEN cfg.cost ELSE Undefined

\* Where in SUPPORTED_MODELS the object a read yields is stored: <<>> when it
\* is a structuredClone or a new object, the path of the stored object when
\* the read hands out the stored object itself.
ReadAlias(fn, displayName) ==
  LET own == displayName \in DOMAIN registry.SUPPORTED_MODELS IN
  CASE fn = "getModelConfig" /\ own -> <<displayName>>
    [] fn = "modelLimitsOverrides" /\ own -> <<displayName, "limit">>
    [] fn = "modelCostsDefaults" /\ own -> <<displayName, "cost">>
    [] OTHER -> <<>>

\* In-place changes a caller makes to an object it holds: value[field] = v.
\* The fields assigned, and what is assigned to each.
RegEdits == {"input", "cost"}

EditValue(field) == IF field = "input" THEN 0 ELSE CustomCost

IsPlainObject(value) ==
  /\ value # Null
  /\ value # Undefined
  /\ ~IsBuiltin(value)

\* SUPPORTED_MODELS after the object stored at a path has become `value`.
StoredAt(models, path, value) ==
  IF Len(path) = 1 THEN With(models, path[1], value)
  ELSE With(models, path[1], With(models[path[1]], path[2], value))

RegInit ==
  /\ registry = InitialRegistry
  /\ pc = "caller"
  /\ exitCode = -1
  /\ exitReason = "running"
  /\ cliArgs = [help |-> FALSE, version |-> FALSE, selectAgents |-> FALSE,
                customCosts |-> FALSE, output |-> Undefined,
                supportedModels |-> Undefined]
  /\ env = EmptyObject
  /\ depsOk = FALSE
  /\ fetches = 0
  /\ files = EmptyObject
  /\ writes = <<>>
  /\ modelsList = <<>>
  /\ existingCosts = [obj |-> EmptyObject]
  /\ result = NoResult
  /\ existingConfig = [obj |-> EmptyObject]
  /\ config = EmptyObject
  /\ editor = NoEditor
  /\ call = NoCall
  /\ ret = NoCall

\* The caller reads the registry through a getter or a legacy export.
LookUp ==
  /\ pc = "caller"
  /\ \E fn \in RegReads, displayName \in RegNames :
       /\ call' = [fn |-> fn, displayName |-> displayName]
       /\ ret' = [value |-> ReadValue(fn, displayName),
                  alias |-> ReadAlias(fn, displayName)]
  /\ UNCHANGED <<pc, exitCode, exitReason, cliArgs, env, depsOk, fetches, files, writes,
                 modelsList, existingCosts, result, existingConfig, config, editor,
                 registry>>

\* The caller changes the object it holds in place; an object that is stored
\* in SUPPORTED_MODELS changes there too.
MutateInPlace ==
  /\ pc = "caller"
  /\ ret # NoCall
  /\ IsPlainObject(ret.value)
  /\ \E field \in RegEdits :
       LET changed == With(ret.value, field, EditValue(field)) IN
       /\ ret' = [ret EXCEPT !.value = changed]
       /\ registry' =
            IF ret.alias = <<>> THEN registry
            ELSE [registry EXCEPT
                    !.SUPPORTED_MODELS = StoredAt(@, ret.alias, changed)]
  /\ UNCHANGED <<pc, exitCode, exitReason, cliArgs, env, depsOk, fetches, files, writes,
                 modelsList, existingCosts, result, existingConfig, config, editor,
                 call>>

RegNext ==
  \/ LookUp
  \/ MutateInPlace

RegSpec == RegInit /\ [][RegNext]_vars

-----------------------------------------------------------------------------
(* index.mjs: configureCustomCosts, called on its own *)

\* asObject(asObject(config.provider?.["nexos-ai"])?.models), {} when undefined
ConfiguredModels(cfg) ==
  LET providerConfig == ExistingProvider(cfg) IN
  asObject("models" \in DOMAIN providerConfig,
           IF "models" \in DOMAIN providerConfig THEN providerConfig.models ELSE Null)

ConfigWithModels(models) ==
  [theme |-> "dark",
   agent |-> Agents,
   provider |-> [p \in {"openai", "nexos-ai"} |->
     IF p = "openai" THEN OtherProvider
     ELSE [obj |-> [npm |-> "@crazy-goat/nexos-provider", name |-> "Nexos AI",
                    options |-> [baseURL |-> "https://api.nexos.ai/v1/",
                                 timeout |-> 300000],
                    models |-> [obj |-> models]]]]]

\* Configurations the editor is given: without provider, without models, with
\* models off the registry only, with a registry model that has a cost and a
\* model without cost, with a model named like an inherited property.
CostConfigs ==
  {EmptyObject,
   [provider |-> [p \in {"openai"} |-> OtherProvider]],
   ConfigWithModels(EmptyObject),
   ConfigWithModels([n \in {"Unknown Model"} |-> [name |-> n]]),
   ConfigWithModels([n \in {"GPT 5", "Unknown Model"} |->
     IF n = "GPT 5"
     THEN [name |-> n, limit |-> SUPPORTED_MODELS[n].limit,
           variants |-> SUPPORTED_MODELS[n].variants,
           cost |-> [input |-> 5000, output |-> 15000, cache_read |-> 500]]
     ELSE [name |-> n, limit |-> [context |-> DefaultContext, output |-> DefaultOutput],
           options |-> [reasoningEffort |-> "high"]]]),
   ConfigWithModels([n \in {"constructor"} |-> [name |-> n]])}

\* configureCustomCosts(config, modelNames, "nexos-ai", supportedModelsOnly) is
\* entered; modelNames are the keys of the configured models.
CostInit ==
  /\ registry = InitialRegistry
  /\ pc = "costs"
  /\ exitCode = -1
  /\ exitReason = "running"
  /\ \E m \in {Undefined, [str |-> "False"]} :
       cliArgs = [help |-> FALSE, version |-> FALSE, selectAgents |-> FALSE,
                  customCosts |-> TRUE, output |-> Undefined, supportedModels |-> m]
  /\ env = EmptyObject
  /\ depsOk = TRUE
  /\ fetches = 0
  /\ files = EmptyObject
  /\ writes = <<>>
  /\ modelsList = <<>>
  /\ existingCosts = [obj |-> EmptyObject]
  /\ config \in CostConfigs
  /\ result = [EmptyResult EXCEPT
                 !.models = ConfiguredModels(config),
                 !.modelNames = KeysInOrder(DOMAIN ConfiguredModels(config))]
  /\ existingConfig = [obj |-> EmptyObject]
  /\ editor = NoEditor
  /\ call = [fn |-> "configureCustomCosts", config |-> config,
             supportedModelsOnly |-> supportedModelsOnly]
  /\ ret = NoCall

CostNext ==
  \/ StartCosts
  \/ AnswerCostSearch
  \/ AnswerCostInputs
  \/ AnswerConfirm

CostSpec == CostInit /\ [][CostNext]_vars

\* A session in which each prompt is answered in the end, and in which the
\* user does not for ever pass over the answers that end it: "Done" at the
\* search, "no" at the confirm.
CostFairSpec ==
  /\ CostSpec
  /\ WF_vars(CostNext)
  /\ SF_vars((AnswerCostSearch \/ AnswerConfirm) /\ EndCosts)

-----------------------------------------------------------------------------
(* selectAgentModels alone: a session of the agent editor on a configuration *)

\* The configurations the editor is started on: no agent property, no agent,
\* an agent property that is not an object, and agents with and without a
\* model, a description and a permission.
AgentConfigs ==
  {EmptyObject,
   [theme |-> "dark", agent |-> [obj |-> EmptyObject]],
   [theme |-> "dark", agent |-> Agents],
   [agent |-> [obj |-> [a \in {"plan"} |->
      [mode |-> "primary", model |-> "nexos-ai/Old Model",
       description |-> "Custom description",
       permission |-> [edit |-> "allow", bash |-> "deny"]]]]],
   [agent |-> [obj |-> [a \in {"plan", "review"} |->
      IF a = "plan" THEN [description |-> ""]
      ELSE [description |-> "", permission |-> [edit |-> "deny"]]]]],
   [agent |-> [obj |-> [a \in {"plan", "build"} |->
      IF a = "plan" THEN EmptyObject
      ELSE [model |-> "nexos-ai/GPT 5", description |-> "Build agent"]]]],
   [theme |-> "dark", agent |-> [str |-> "none"]],
   [agent |-> [obj |-> [a \in {"plan", "review"} |->
      IF a = "plan" THEN [mode |-> "primary"]
      ELSE [model |-> "(not set)"]]]]}

\* selectAgentModels(config, modelNames, "nexos-ai") is entered.
AgentInit ==
  /\ registry = InitialRegistry
  /\ pc = "agents"
  /\ exitCode = -1
  /\ exitReason = "running"
  /\ cliArgs = [help |-> FALSE, version |-> FALSE, selectAgents |-> TRUE,
                customCosts |-> FALSE, output |-> Undefined,
                supportedModels |-> Undefined]
  /\ env = EmptyObject
  /\ depsOk = TRUE
  /\ fetches = 0
  /\ files = EmptyObject
  /\ writes = <<>>
  /\ modelsList = <<>>
  /\ existingCosts = [obj |-> EmptyObject]
  /\ config \in AgentConfigs
  /\ \E modelNames \in {<<>>, <<"GPT 5">>, <<"Claude Opus 4.6", "GPT 5">>} :
       result = [EmptyResult EXCEPT !.modelNames = modelNames]
  /\ existingConfig = [obj |-> EmptyObject]
  /\ editor = NoEditor
  /\ call = [fn |-> "selectAgentModels", config |-> config]
  /\ ret = NoCall

AgentNext ==
  \/ StartAgents
  \/ AnswerCheckbox
  \/ AnswerAgentSearch

AgentSpec == AgentInit /\ [][AgentNext]_vars

-----------------------------------------------------------------------------
(* Properties of a run of main() *)

\* The configuration held by the i-th write of the run.
Written(i) == writes[i].content.json.obj

\* The nexos-ai block of the i-th write.
WrittenBlock(i) == Written(i).provider["nexos-ai"].obj

\* The nexos-ai block of the configuration the run loaded, {} when there is none.
LoadedBlock == ExistingProvider(TopLevel(existingConfig))

\* The models of the block the run loaded, {} when there are none.
LoadedModels ==
  asObject("models" \in DOMAIN LoadedBlock,
           IF "models" \in DOMAIN LoadedBlock THEN LoadedBlock.models ELSE Null)

\* C1: the models of the provider block that buildProviderConfig returns are
\* exactly the freshly computed map, whatever the existing configuration holds,
\* and every file the run writes holds the models of the fresh map and no other:
\* a model of an earlier run that the fresh map lacks is gone.
C1_ModelsReplacedWholesale ==
  /\ pc = "save" => ModelsOf(config) = result.models
  /\ \A i \in 1..Len(writes) :
       /\ DOMAIN ModelsOf(Written(i)) = DOMAIN result.models
       /\ \A n \in DOMAIN LoadedModels :
            n \notin SeqToSet(result.modelNames) => n \notin DOMAIN ModelsOf(Written(i))

\* C1 happens: a run has written its file over one that held "Old Model",
\* which the fresh map lacks.
C1_Witness ==
  /\ Len(writes) >= 1
  /\ "Old Model" \in DOMAIN LoadedModels
  /\ "Old Model" \notin DOMAIN result.models
  /\ DOMAIN result.models # {}

\* C2: in every file a run writes (after the merge, after the agent editor,
\* after the cost editor) every top-level field of the existing configuration
\* other than $schema, provider and agent, and every provider entry other than
\* nexos-ai, is present with its original value.
C2_OtherFieldsPreserved ==
  \A i \in 1..Len(writes) :
    LET cfg == TopLevel(existingConfig)
        providers == IF "provider" \in DOMAIN cfg THEN cfg.provider ELSE EmptyObject
    IN /\ \A k \in DOMAIN cfg \ {"$schema", "provider", "agent"} :
            k \in DOMAIN Written(i) /\ Written(i)[k] = cfg[k]
       /\ \A p \in DOMAIN providers \ {"nexos-ai"} :
            p \in DOMAIN Written(i).provider /\ Written(i).provider[p] = providers[p]

\* C2 happens: a run that merged, edited agents and edited costs has ended,
\* having written three times over a configuration with a theme and another
\* provider.
C2_Witness ==
  /\ pc = "done"
  /\ Len(writes) = 3
  /\ "theme" \in DOMAIN TopLevel(existingConfig)
  /\ "provider" \in DOMAIN TopLevel(existingConfig)
  /\ "openai" \in DOMAIN TopLevel(existingConfig).provider

\* C3: every field of the existing nexos-ai block other than npm, name, env,
\* options and models is in the block of every file the run writes, with its
\* original value.
C3_UnknownBlockFieldsPreserved ==
  \A i \in 1..Len(writes) :
    \A k \in DOMAIN LoadedBlock \ {"npm", "name", "env", "options", "models"} :
      k \in DOMAIN WrittenBlock(i) /\ WrittenBlock(i)[k] = LoadedBlock[k]

\* C4: every model of the file a run writes that already had a cost in the
\* file at that path (the default path or the one given with --output) is
\* written by the merge with that cost.
C4_ExistingCostsPreserved ==
  Len(writes) >= 1 =>
    \A n \in DOMAIN ModelsOf(Written(1)) :
      (n \in DOMAIN LoadedModels /\ "cost" \in DOMAIN LoadedModels[n]) =>
        /\ "cost" \in DOMAIN ModelsOf(Written(1))[n]
        /\ ModelsOf(Written(1))[n].cost = LoadedModels[n].cost

\* C8: whatever the file at the config path holds, main does not end with the
\* exception of a build on what loadExistingConfig returned.
C8_ConfigNeverFatal == ~(pc = "crashed" /\ exitReason = "TypeError")

\* C9: when main has ended through process.exit nothing has been written; the
\* exit on an empty catalog has code 0 and follows one fetch, the exits on a
\* missing or invalid credential, a failed dependency probe and a non-2xx
\* response have code 1.
C9_NoWriteOnEarlyExit ==
  pc = "exited" =>
    /\ writes = <<>>
    /\ config = EmptyObject
    /\ exitReason \in {"help", "version", "credential missing", "credential invalid",
                       "dependency missing", "catalog response not ok", "no models"}
    /\ exitReason = "no models" => exitCode = 0 /\ fetches = 1 /\ modelsList = <<>>
    /\ exitReason \in {"credential missing", "credential invalid",
                       "dependency missing", "catalog response not ok"} => exitCode = 1
    /\ exitReason = "catalog response not ok" => fetches = 1
    /\ exitReason = "dependency missing" => ~depsOk

\* C9 happens: main has ended on an empty catalog.
C9_Witness == pc = "exited" /\ exitReason = "no models" /\ fetches = 1

\* NEXOS_API_KEY of the environment main has read is set and starts with "nexos-".
CredentialValid ==
  /\ "NEXOS_API_KEY" \in DOMAIN env
  /\ env.NEXOS_API_KEY # ""
  /\ StartsWith(env.NEXOS_API_KEY, "nexos-")

\* C10: a request to the catalog API has been made only with a credential that
\* is set and starts with "nexos-" and after a successful dependency probe; a
\* run past the credential check with another credential, or past the probe
\* with a failed probe, has ended with code 1 and no request.
C10_NoFetchBeforeChecks ==
  /\ fetches > 0 => CredentialValid /\ depsOk
  /\ (pc \notin {"start", "credential"} /\ exitReason \notin {"help", "version"}
        /\ ~CredentialValid) =>
       pc = "exited" /\ exitCode = 1 /\ fetches = 0
  /\ (pc \notin {"start", "credential", "dependencies"} /\ CredentialValid /\ ~depsOk) =>
       pc = "exited" /\ exitCode = 1 /\ fetches = 0

\* C10 happens: the catalog has been requested.
C10_Witness == fetches = 1 /\ pc = "fetched" /\ CredentialValid /\ depsOk

\* Where main is: before its first save, in the agent editor (or about to save
\* what it returned), in the cost editor (or about to save what it returned).
BeforeFirstSave ==
  {"start", "credential", "dependencies", "fetch", "fetched", "process", "load",
   "build", "save"}
InAgentEditor == {"agent checkbox", "agent search"}
InCostEditor == {"cost search", "cost inputs", "cost confirm"}

\* One step of main in the order load, merge, save, agents, save, costs, save.
C11_Step ==
  \* a write is one of the three saves, to the one config path
  /\ writes' # writes =>
       /\ pc \in {"save", "agents save", "costs save"}
       /\ Len(writes') = Len(writes) + 1
       /\ SubSeq(writes', 1, Len(writes)) = writes
       /\ writes'[Len(writes')].path = ConfigPath(cliArgs)
       /\ writes'[Len(writes')].content = serializeConfig(config)
  \* the merge is saved once, after the load and the build
  /\ pc' = "save" => pc = "build" /\ writes = <<>>
  /\ pc = "save" => Len(writes') = 1 /\ pc' = "agents"
  \* the agent editor starts after the first save, only when asked for
  /\ (pc' \in InAgentEditor /\ pc \notin InAgentEditor) =>
       pc = "agents" /\ cliArgs.selectAgents /\ Len(writes) = 1
  \* it returns true: a save follows; it returns false or did not run: none
  /\ pc' = "agents save" => pc = "agent search"
  /\ pc = "agents save" => Len(writes) = 1 /\ Len(writes') = 2 /\ pc' = "costs"
  /\ (pc' = "costs" /\ pc # "agents save") =>
       /\ writes' = writes
       /\ \/ pc = "agents" /\ ~cliArgs.selectAgents
          \/ pc = "agent checkbox"
  \* the cost editor starts after the agent editor is over, only when asked for
  /\ (pc' \in InCostEditor /\ pc \notin InCostEditor) =>
       pc = "costs" /\ cliArgs.customCosts
  /\ pc \in InCostEditor \cup {"costs", "costs save", "finish", "done"} =>
       pc' \notin InAgentEditor \cup {"agents", "agents save"}
  \* it returns true: a save follows; it returns false or did not run: none
  /\ pc' = "costs save" => pc \in InCostEditor /\ editor.hasChanges
  /\ pc = "costs save" => Len(writes') = Len(writes) + 1 /\ pc' = "finish"
  /\ (pc' = "finish" /\ pc # "costs save") =>
       /\ writes' = writes
       /\ \/ pc = "costs"
          \/ pc \in InCostEditor /\ ~editor.hasChanges
  /\ pc' = "done" => pc = "finish" /\ Len(writes) \in 1..3

\* C11: every step of main keeps the order load, merge, save, optional agent
\* editor, save, optional cost editor, save: one write after the merge, one
\* more after the agent editor exactly when it ran and returned true, one more
\* after the cost editor exactly when it ran and returned true; the agent
\* editor comes before the cost editor and neither before the first save.
C11_StrictSequence == [][C11_Step]_vars

\* C11 happens: a run that saved the merge, then the agents, then the costs,
\* has ended.
C11_Witness ==
  /\ pc = "done"
  /\ exitCode = 0
  /\ Len(writes) = 3
  /\ cliArgs.selectAgents /\ cliArgs.customCosts

-----------------------------------------------------------------------------
(* Properties of the exported functions *)

\* The cost the priority order gives: the cost existingCosts holds for the
\* name, else the cost of the registry entry of the name, else the fallback.
CostByPriority(displayName, costs) ==
  IF "obj" \in DOMAIN costs /\ displayName \in DOMAIN costs.obj
  THEN costs.obj[displayName]
  ELSE IF displayName \in DOMAIN SUPPORTED_MODELS
       THEN SUPPORTED_MODELS[displayName].cost
       ELSE DEFAULT_FALLBACK_COSTS

\* C5: for every name and for existingCosts absent, empty or not, getModelCost
\* returns the existing cost of the name as it is, else the registry cost of
\* the name, else the fallback cost constant.
C5_CostPriority ==
  Returned("getModelCost") =>
    ret.value = CostByPriority(call.displayName, call.existingCosts)

HasInputAndOutput(cost) == {"input", "output"} \subseteq DOMAIN cost

\* C6 as stated: every cost of the models map processModels returns has the
\* fields input and output.
C6_EveryCostHasInputAndOutput ==
  Returned("processModels") =>
    \A n \in DOMAIN ret.value.models :
      "cost" \in DOMAIN ret.value.models[n] /\ HasInputAndOutput(ret.value.models[n].cost)

\* C6: every cost of the models map processModels returns that the lookup
\* existingCosts[displayName] did not yield (a cost of the registry or the
\* fallback) has the fields input and output; a cost the lookup yields is in
\* the map as found.
C6_ResolvedCostHasInputAndOutput ==
  Returned("processModels") =>
    \A n \in DOMAIN ret.value.models :
      /\ "cost" \in DOMAIN ret.value.models[n]
      /\ IF HasExistingCost(n, call.existingCosts)
         THEN ret.value.models[n].cost = JsGet(call.existingCosts.obj, n)
         ELSE HasInputAndOutput(ret.value.models[n].cost)

\* C6 happens: a map has a model off the registry with the fallback cost, and
\* a model whose existing cost has no output.
C6_Witness ==
  /\ Returned("processModels")
  /\ \E n \in DOMAIN ret.value.models :
       /\ ~HasExistingCost(n, call.existingCosts)
       /\ n \notin DOMAIN SUPPORTED_MODELS
  /\ \E n \in DOMAIN ret.value.models :
       /\ HasExistingCost(n, call.existingCosts)
       /\ ~HasInputAndOutput(ret.value.models[n].cost)

\* The display names of a catalog, in its order, that pass the privacy, the
\* embedding and the skip-prefix filters.
RECURSIVE PassedNames(_)
PassedNames(list) ==
  IF list = <<>> THEN <<>>
  ELSE LET displayName == getDisplayName(Head(list)) IN
       IF \/ HasPrivacyMarker(Head(list))
          \/ Includes(ToLowerCase(displayName), "embedding")
          \/ isSkippedModel(displayName)
       THEN PassedNames(Tail(list))
       ELSE <<displayName>> \o PassedNames(Tail(list))

\* C7: with supportedModelsOnly, every name of the output map is a key of the
\* registry and unsupportedModels is, in input order, the names that passed
\* the three filters and are no registry keys; without it unsupportedModels is
\* empty and every name that passed is in the output map.
C7_SupportedFilterExact ==
  Returned("processModels") =>
    LET passed == PassedNames(call.modelsList) IN
    IF call.supportedModelsOnly
    THEN /\ DOMAIN ret.value.models \subseteq DOMAIN SUPPORTED_MODELS
         /\ ret.value.unsupportedModels =
              FilterSeq(passed, SeqToSet(passed) \ DOMAIN SUPPORTED_MODELS)
    ELSE /\ ret.value.unsupportedModels = <<>>
         /\ SeqToSet(passed) \subseteq DOMAIN ret.value.models

\* The block the existing configuration of a buildProviderConfig call holds
\* under nexos-ai, {} when there is none.
CallBlock == ExistingProvider(TopLevel(call.existingConfig))

\* The strings of the env list of that block, as they stand in it.
CallEnvStrings ==
  LET e == IF "env" \in DOMAIN CallBlock THEN CallBlock.env ELSE <<>> IN
  [i \in {k \in 1..Len(e) : "str" \in DOMAIN e[k]} |-> e[i].str]

\* Where a string first stands in a list of tagged strings.
FirstIndex(list, str) ==
  CHOOSE i \in DOMAIN list :
    list[i] = str /\ \A j \in DOMAIN list : list[j] = str => i <= j

\* C12: the env list buildProviderConfig returns has no entry twice, starts
\* with NEXOS_API_KEY, holds besides it exactly the strings of the existing
\* env list, and holds them in the order of their first places in that list.
C12_EnvDeduplicatedInOrder ==
  ReturnedValue("buildProviderConfig") =>
    LET out == [i \in 1..Len(ret.value.env) |-> ret.value.env[i].str]
        old == CallEnvStrings
    IN /\ \A i, j \in 1..Len(out) : out[i] = out[j] => i = j
       /\ Len(out) >= 1 /\ out[1] = "NEXOS_API_KEY"
       /\ {out[i] : i \in 2..Len(out)} = {old[i] : i \in DOMAIN old} \ {"NEXOS_API_KEY"}
       /\ \A i, j \in 2..Len(out) :
            i < j => FirstIndex(old, out[i]) < FirstIndex(old, out[j])

\* C12 happens: a block is returned for an env list with a repeated entry, an
\* entry that is no string, and NEXOS_API_KEY in the middle.
C12_Witness ==
  /\ ReturnedValue("buildProviderConfig")
  /\ "env" \in DOMAIN CallBlock
  /\ Len(CallBlock.env) = 5
  /\ Len(ret.value.env) = 3

\* The options object of that block, {} when it has none or one that is no
\* object.
CallOptions ==
  asObject("options" \in DOMAIN CallBlock,
           IF "options" \in DOMAIN CallBlock THEN CallBlock.options ELSE Null)

EndsWith(str, suffix) ==
  /\ Len(str) >= Len(suffix)
  /\ SubSeq(str, Len(str) - Len(suffix) + 1, Len(str)) = suffix

\* The block has the field, and it is not the empty string.
HasNonEmpty(obj, field) == field \in DOMAIN obj /\ obj[field] # ""

\* C13 as stated: options.baseURL of every block buildProviderConfig returns
\* ends in "/".
C13_BaseURLEndsInSlash ==
  ReturnedValue("buildProviderConfig") =>
    EndsWith(ret.value.options.obj.baseURL, "/")

\* C13: options.baseURL of a block buildProviderConfig returns ends in "/"
\* when the existing block has no baseURL (none, or an empty one) or one that
\* ends in "/"; an existing baseURL is returned as it stands.
C13_BaseURLEndsInSlashUnlessKept ==
  ReturnedValue("buildProviderConfig") =>
    LET out == ret.value.options.obj.baseURL IN
    /\ HasNonEmpty(CallOptions, "baseURL") => out = CallOptions.baseURL
    /\ (~HasNonEmpty(CallOptions, "baseURL") \/ EndsWith(CallOptions.baseURL, "/")) =>
         EndsWith(out, "/")

\* C13 happens: a block is returned for an existing block without baseURL and
\* the API base URL https://api.nexos.ai/v1.
C13_Witness ==
  /\ ReturnedValue("buildProviderConfig")
  /\ "baseURL" \notin DOMAIN CallOptions
  /\ call.apiBaseURL = "https://api.nexos.ai/v1"
  /\ ret.value.options.obj.baseURL = "https://api.nexos.ai/v1/"

\* C14 as stated: npm, name, options.baseURL and options.timeout of the
\* existing block are kept whenever the block has them, the defaults apply
\* when it does not, and the other keys of its options are passed through.
C14_ExistingValuesKeptWhenPresent ==
  ReturnedValue("buildProviderConfig") =>
    LET out == ret.value
        opts == ret.value.options.obj
    IN /\ out.npm = IF "npm" \in DOMAIN CallBlock THEN CallBlock.npm
                    ELSE "@crazy-goat/nexos-provider"
       /\ out.name = IF "name" \in DOMAIN CallBlock THEN CallBlock.name ELSE "Nexos AI"
       /\ opts.baseURL = IF "baseURL" \in DOMAIN CallOptions THEN CallOptions.baseURL
                         ELSE call.apiBaseURL \o "/"
       /\ opts.timeout = IF "timeout" \in DOMAIN CallOptions THEN CallOptions.timeout
                         ELSE [num |-> 300000]
       /\ \A k \in DOMAIN CallOptions \ {"baseURL", "timeout"} :
            k \in DOMAIN opts /\ opts[k] = CallOptions[k]

\* C14: npm, name and options.baseURL of the existing block are kept when the
\* block has them and they are not empty, options.timeout when the block has
\* it and it is not null (a timeout of 0 is kept); otherwise the defaults
\* apply; the other keys of the existing options are passed through, and the
\* options returned have no further key.
C14_ExistingValuesKeptWhenSet ==
  ReturnedValue("buildProviderConfig") =>
    LET out == ret.value
        opts == ret.value.options.obj
    IN /\ out.npm = IF HasNonEmpty(CallBlock, "npm") THEN CallBlock.npm
                    ELSE "@crazy-goat/nexos-provider"
       /\ out.name = IF HasNonEmpty(CallBlock, "name") THEN CallBlock.name ELSE "Nexos AI"
       /\ opts.baseURL = IF HasNonEmpty(CallOptions, "baseURL") THEN CallOptions.baseURL
                         ELSE call.apiBaseURL \o "/"
       /\ opts.timeout = IF "timeout" \in DOMAIN CallOptions /\ CallOptions.timeout # Null
                         THEN CallOptions.timeout
                         ELSE [num |-> 300000]
       /\ DOMAIN opts = DOMAIN CallOptions \cup {"baseURL", "timeout"}
       /\ \A k \in DOMAIN CallOptions \ {"baseURL", "timeout"} : opts[k] = CallOptions[k]

\* C14 happens: a block is returned for an existing block with npm, a baseURL,
\* a timeout of 0 and one more option.
C14_Witness ==
  /\ ReturnedValue("buildProviderConfig")
  /\ HasNonEmpty(CallBlock, "npm")
  /\ HasNonEmpty(CallOptions, "baseURL")
  /\ "headers" \in DOMAIN CallOptions
  /\ "timeout" \in DOMAIN CallOptions
  /\ CallOptions.timeout = [num |-> 0]
  /\ ret.value.options.obj.timeout = [num |-> 0]

-----------------------------------------------------------------------------
(* Properties of the registry *)

\* C15: whatever a caller has looked up and changed in place, SUPPORTED_MODELS
\* and DEFAULT_FALLBACK_COSTS hold what models.config.mjs created them with
\* (so that a later lookup returns the original value).
C15_RegistryUntouched ==
  /\ registry.SUPPORTED_MODELS = SUPPORTED_MODELS
  /\ registry.DEFAULT_FALLBACK_COSTS = DEFAULT_FALLBACK_COSTS

-----------------------------------------------------------------------------
(* Properties of configureCustomCosts *)

\* The string is a number with digits: parseFloat yields a number, and not
\* Infinity.
ParsesAsFinite(str) ==
  /\ "num" \in DOMAIN parseFloat(str)
  /\ parseFloat(str).num # Infinity

\* C16, for one answering of the four inputs: a field whose answer parses as
\* a finite number takes that number; else a field the prior cost had keeps
\* its value; else the field is absent from the new cost.
C16_Step ==
  (pc = "cost inputs" /\ pc' = "cost confirm") =>
    LET prior == CurrentCost(ConfiguredModels(config), editor.selectedModel)
        new == CurrentCost(ConfiguredModels(config'), editor.selectedModel)
        answers == editor'.answers
    IN \A i \in 1..4 :
         LET f == CostFields[i] IN
         IF ParsesAsFinite(answers[i])
         THEN f \in DOMAIN new /\ new[f] = parseFloat(answers[i]).num
         ELSE IF f \in DOMAIN prior
              THEN f \in DOMAIN new /\ new[f] = prior[f]
              ELSE f \notin DOMAIN new

\* C16: every answering of the four inputs of configureCustomCosts gives each
\* of input, output, cache_read and cache_write the entered number when the
\* answer parses as a finite number, else the prior value when there was
\* one, else leaves the field out (so four blank answers give an equal cost
\* and no field comes from nowhere).
C16_FieldByFieldRule == [][C16_Step]_vars

\* The session is over: configureCustomCosts has returned true ("costs save")
\* or false ("finish").
CostsReturned == call # NoCall /\ call.fn = "configureCustomCosts"
                 /\ pc \in {"costs save", "finish"}

\* C17: configureCustomCosts returns true exactly when the cost of some model
\* after the session differs from its cost before.
C17_ReturnsWhetherChanged ==
  CostsReturned =>
    ((pc = "costs save") <=> (ConfiguredModels(config) # ConfiguredModels(call.config)))

\* C18: when the configuration has no provider block, or no models, or when
\* supportedModelsOnly is set and no configured model name is a key of the
\* registry, configureCustomCosts returns false without a prompt and without a
\* change to the configuration.
C18_AbortsWithoutPrompt ==
  (/\ call # NoCall
   /\ call.fn = "configureCustomCosts"
   /\ \/ DOMAIN ConfiguredModels(call.config) = {}
      \/ /\ call.supportedModelsOnly
         /\ DOMAIN ConfiguredModels(call.config) \cap DOMAIN SUPPORTED_MODELS = {}) =>
    /\ pc \in {"costs", "finish"}
    /\ editor = NoEditor
    /\ config = call.config

-----------------------------------------------------------------------------
(* Properties of selectAgentModels *)

\* One answer to the checkbox: either the function returns false with the
\* configuration as it was passed, or the search prompts start for the agents
\* that were ticked, of which there is at least one.
C19_Step ==
  pc = "agent checkbox" =>
    \/ /\ pc' = "costs"
       /\ editor' = NoEditor
       /\ config' = call.config
       /\ writes' = writes
    \/ /\ pc' = "agent search"
       /\ editor'.selected # <<>>

\* C19: when agents exist and the user selects none of them, selectAgentModels
\* returns false, issues no search prompt and leaves config.agent exactly as
\* it was.
C19_ZeroSelectionLeavesAgents == [][C19_Step]_vars

\* C19 happens: agents existed, the checkbox was answered with no agent, and
\* the function has returned false.
C19_Witness ==
  /\ call # NoCall /\ call.fn = "selectAgentModels"
  /\ pc = "costs"
  /\ DOMAIN AgentsOf(call.config) # {}
  /\ config = call.config

\* The fields that receive defaults.
DefaultedFields == {"description", "permission"}

\* Every description and permission is the prior one where kept(field, prior value)
\* holds, and where it is not, it is the prior one or, in an agent with
\* registered defaults, the registered default.
DefaultsOnlyWhere(kept(_, _)) ==
  LET prior == AgentsOf(call.config)
      now == AgentsOf(config)
  IN \A a \in DOMAIN now : \A f \in DefaultedFields :
       LET had == a \in DOMAIN prior /\ f \in DOMAIN prior[a] IN
       IF had /\ kept(f, prior[a][f])
       THEN f \in DOMAIN now[a] /\ now[a][f] = prior[a][f]
       ELSE \/ IF had THEN f \in DOMAIN now[a] /\ now[a][f] = prior[a][f]
                ELSE f \notin DOMAIN now[a]
            \/ /\ a \in DOMAIN AGENT_DEFAULTS
               /\ f \in DOMAIN now[a]
               /\ now[a][f] = AGENT_DEFAULTS[a][f]

IsPresent(f, value) == TRUE
\* A permission is an object; a description is a string, empty or not.
IsNonEmpty(f, value) == f = "permission" \/ value # ""

\* C20: selectAgentModels never overwrites an existing description or
\* permission: defaults go only to agent names with registered defaults and
\* only into fields the prior record does not have.
C20_ExistingFieldsNeverOverwritten ==
  (call # NoCall /\ call.fn = "selectAgentModels") => DefaultsOnlyWhere(IsPresent)

\* C20, as the code has it: a description or permission that is not empty is
\* never overwritten; defaults go only to agent names with registered
\* defaults, into fields that are absent or hold an empty string.
C20_NonEmptyFieldsNeverOverwritten ==
  (call # NoCall /\ call.fn = "selectAgentModels") => DefaultsOnlyWhere(IsNonEmpty)

\* C20 happens: the plan agent had a description and a permission of its own,
\* its search prompt has been answered, and it still has both.
C20_Witness ==
  /\ call # NoCall /\ call.fn = "selectAgentModels"
  /\ pc = "agents save"
  /\ "plan" \in DOMAIN AgentsOf(call.config)
  /\ DefaultedFields \subseteq DOMAIN AgentsOf(call.config).plan
  /\ "model" \in DOMAIN AgentsOf(config).plan
  /\ AgentsOf(config).plan.description = AgentsOf(call.config).plan.description
  /\ AgentsOf(config).plan.permission = AgentsOf(call.config).plan.permission

\* The agent whose search prompt is shown, and its record.
PromptedAgent == editor.selected[editor.next]
PromptedRecord == PreparedAgent(AgentsOf(config), PromptedAgent)

\* The values offered by the search prompt when the filter is empty.
OfferedValues == {editor.allChoices[i].value : i \in 1..Len(editor.allChoices)}

\* C21: at the search prompt of a selected agent that has a model, that model
\* is among the values offered and is the default selection; at the prompt of
\* an agent with no model there is no default.
C21_CurrentModelOfferedAndDefault ==
  (call # NoCall /\ call.fn = "selectAgentModels" /\ pc = "agent search") =>
    IF HasModel(AgentsOf(config), PromptedAgent)
    THEN /\ AgentsOf(config)[PromptedAgent].model \in OfferedValues
         /\ SearchDefault(editor.allChoices, PromptedRecord)
              = {AgentsOf(config)[PromptedAgent].model}
    ELSE SearchDefault(editor.allChoices, PromptedRecord) = {}

\* The configuration passed in has no agents: agent is missing, is not an
\* object, or is empty.
NoAgentsConfigured ==
  call # NoCall /\ call.fn = "selectAgentModels" /\ DOMAIN AgentsOf(call.config) = {}

FourDefaultAgents == <<"build", "build-fast", "build-heavy", "plan">>

\* C22: when the configuration has no agents, no checkbox is shown, the four
\* default agents are the selection, each gets a record when its prompt comes
\* up, and all four have one when the function returns.
C22_DefaultsWhenNoAgents ==
  NoAgentsConfigured =>
    /\ pc \in {"agents", "agent search", "agents save"}
    /\ pc = "agent search" =>
         /\ editor.selected = FourDefaultAgents
         /\ \A i \in 1..(editor.next - 1) :
              FourDefaultAgents[i] \in DOMAIN AgentsOf(config)
    /\ pc = "agents save" => DOMAIN AgentsOf(config) = SeqToSet(FourDefaultAgents)

\* C22 happens: there was no agent and the function has returned with the
\* four records created.
C22_Witness ==
  /\ NoAgentsConfigured
  /\ pc = "agents save"
  /\ \A i \in 1..4 : "model" \in DOMAIN AgentsOf(config)[FourDefaultAgents[i]]

\* One answer to a search prompt: the prompt is the one of the next agent of
\* the selection, which holds no agent twice; the answer, one of the values
\* offered, becomes that agent's model; every other record is as before; and
\* after the last agent of the selection the function returns true.
C23_Step ==
  (pc = "agent search" /\ <<pc, config, editor>>' # <<pc, config, editor>>) =>
    LET prior == AgentsOf(config)
        new == AgentsOf(config')
    IN /\ \A i, j \in 1..Len(editor.selected) :
            editor.selected[i] = editor.selected[j] => i = j
       /\ DOMAIN new = DOMAIN prior \cup {PromptedAgent}
       /\ \A b \in DOMAIN prior \ {PromptedAgent} : new[b] = prior[b]
       /\ "model" \in DOMAIN new[PromptedAgent]
       /\ new[PromptedAgent].model \in OfferedValues
       /\ IF editor.next = Len(editor.selected)
          THEN pc' = "agents save"
          ELSE /\ pc' = "agent search"
               /\ editor'.selected = editor.selected
               /\ editor'.next = editor.next + 1

\* C23: with a non-empty selection every selected agent is prompted exactly
\* once, in selection order, and gets the answer of its own prompt as model;
\* the function then returns true, also when no model differs from before;
\* agents that were not selected keep their records.
C23_EverySelectedAgentPromptedOnce == [][C23_Step]_vars

\* C23 happens: every answer was the model the agent had, and the function
\* has returned true.
C23_Witness ==
  /\ call # NoCall /\ call.fn = "selectAgentModels"
  /\ pc = "agents save"
  /\ config = call.config

-----------------------------------------------------------------------------
(* Properties of getModelLimit and parseSupportedModelsFlag *)

\* What getModelLimit has to return and whether it has to warn, where
\* missing(hints, field) tells which hints are replaced by the defaults.
LimitByPolicy(missing(_, _)) ==
  LET name == call.displayName
      hints == call.apiModel
  IN IF name \in DOMAIN SUPPORTED_MODELS /\ "limit" \in DOMAIN SUPPORTED_MODELS[name]
     THEN ret.value = SUPPORTED_MODELS[name].limit /\ ~ret.warned
     ELSE /\ ret.value =
               [context |-> IF missing(hints, "context_window") THEN DefaultContext
                            ELSE hints.context_window,
                output |-> IF missing(hints, "max_output_tokens") THEN DefaultOutput
                           ELSE hints.max_output_tokens]
          /\ ret.warned

IsAbsent(hints, field) == field \notin DOMAIN hints
IsAbsentOrZero(hints, field) == field \notin DOMAIN hints \/ hints[field] = 0

\* C24: getModelLimit returns the registry limit whenever the name has one,
\* whatever the hints; otherwise the hints of the API, with 128000 and 64000
\* in the place of each hint that is missing; it warns in the second case only.
C24_LimitPolicy ==
  Returned("getModelLimit") => LimitByPolicy(IsAbsent)

\* C24, as the code has it: a hint that is 0 is replaced by the default like
\* one that is missing.
C24_LimitPolicyZeroIsMissing ==
  Returned("getModelLimit") => LimitByPolicy(IsAbsentOrZero)

\* C24 happens: a name without registry limit came with one hint only, and
\* the other value is the default.
C24_Witness ==
  /\ Returned("getModelLimit")
  /\ call.displayName = "Unknown Model"
  /\ call.apiModel = [max_output_tokens |-> 100000]
  /\ ret.value = [context |-> DefaultContext, output |-> 100000]
  /\ ret.warned

\* The flag values whose string form is "false", "0" or "no" in some letter
\* case, among the values passed.
FalseFlagValues ==
  {[bool |-> FALSE]} \cup
  {[str |-> s] : s \in {"false", "FALSE", "False", "fAlSe", "0", "no", "NO", "No"}}

-----------------------------------------------------------------------------
(* Properties of processModels *)

\* The outcome of one catalog model under the precedence privacy marker,
\* embedding, skip prefix, curated filter.
Outcome(model, only) ==
  LET displayName == getDisplayName(model) IN
  CASE HasPrivacyMarker(model) -> "dropped for privacy"
    [] OTHER ->
  CASE Includes(ToLowerCase(displayName), "embedding") -> "dropped as embedding"
    [] OTHER ->
  CASE isSkippedModel(displayName) -> "skipped"
    [] OTHER ->
  CASE only /\ ~isModelSupported(displayName) -> "unsupported"
    [] OTHER -> "included"

\* The display names of the models of the list with the given outcome, in
\* the order of the list.
RECURSIVE NamesWithOutcome(_, _, _)
NamesWithOutcome(list, only, outcome) ==
  IF list = <<>> THEN <<>>
  ELSE (IF Outcome(Head(list), only) = outcome
        THEN <<getDisplayName(Head(list))>> ELSE <<>>)
       \o NamesWithOutcome(Tail(list), only, outcome)

\* C26: processModels gives every input model exactly one outcome, by the
\* precedence privacy marker, embedding, skip prefix, curated filter,
\* included. So the three buckets share no name, a name containing
\* "embedding" in any letter case is in none of them even with a skip prefix,
\* and a name with a skip prefix is never in unsupportedModels nor in models.
C26_OneOutcomeByPrecedence ==
  ReturnedValue("processModels") =>
    LET only == call.supportedModelsOnly
        included == DOMAIN ret.value.models
        skipped == SeqToSet(ret.value.skippedModels)
        unsupported == SeqToSet(ret.value.unsupportedModels)
    IN /\ ret.value.skippedModels = NamesWithOutcome(call.modelsList, only, "skipped")
       /\ ret.value.unsupportedModels
            = NamesWithOutcome(call.modelsList, only, "unsupported")
       /\ included = SeqToSet(NamesWithOutcome(call.modelsList, only, "included"))
       /\ included \cap skipped = {}
       /\ included \cap unsupported = {}
       /\ skipped \cap unsupported = {}
       /\ \A name \in included \cup skipped \cup unsupported :
            ~Includes(ToLowerCase(name), "embedding")
       /\ \A name \in included \cup unsupported : ~StartsWith(name, "Gemini 3")
       /\ ~only => unsupported = {}

\* C26 happens: one call met a name with a skip prefix and "embedding" and a
\* name with a skip prefix alone, under the curated filter: the second is
\* reported as skipped, the first nowhere.
C26_Witness ==
  /\ ReturnedValue("processModels")
  /\ call.supportedModelsOnly
  /\ {getDisplayName(call.modelsList[i]) : i \in 1..Len(call.modelsList)}
       = {"Gemini 3 Embedding", "Gemini 3 Pro"}
  /\ ret.value.skippedModels = <<"Gemini 3 Pro">>
  /\ ret.value.unsupportedModels = <<>>
  /\ ret.value.models = EmptyObject

\* C28: no display name containing the privacy marker "(No PII)" is in
\* models, skippedModels or unsupportedModels, whether it comes from the name
\* field or, name being absent, from the id field.
C28_NoPrivacyMarkedName ==
  ReturnedValue("processModels") =>
    \A name \in DOMAIN ret.value.models
                 \cup SeqToSet(ret.value.skippedModels)
                 \cup SeqToSet(ret.value.unsupportedModels) :
      ~Includes(name, "(No PII)")

-----------------------------------------------------------------------------
(* Properties of a session of configureCustomCosts *)

CostEnded == {"costs save", "finish"}

\* One step of the session: the search is followed by the four inputs of the
\* model chosen or, on "Done", by the return; the inputs are followed by the
\* confirm, whether or not a cost was written; the confirm is followed by
\* the search or, on "no", by the return; the function returns from nowhere
\* else once it has prompted, and a return is followed by nothing.
C27_Step ==
  /\ pc = "cost search" =>
       /\ config' = config
       /\ \/ pc' = "cost search"
          \/ /\ pc' = "cost inputs"
             /\ editor'.selectedModel \in SeqToSet(editor.availableModels)
          \/ pc' \in CostEnded /\ editor' = NoEditor
  /\ pc = "cost inputs" => pc' \in {"cost inputs", "cost confirm"}
  /\ pc = "cost confirm" =>
       /\ config' = config
       /\ \/ pc' \in {"cost confirm", "cost search"}
          \/ pc' \in CostEnded /\ editor' = NoEditor
  /\ (pc' \in CostEnded /\ pc \notin CostEnded) =>
       pc \in {"costs", "cost search", "cost confirm"}
  /\ pc \in CostEnded => pc' = pc /\ config' = config

C29_Step ==
  config' # config =>
    LET prior == ConfiguredModels(config)
        new == ConfiguredModels(config')
    IN /\ pc = "cost inputs"
       /\ editor.selectedModel \in SeqToSet(editor.availableModels)
       /\ WithModels(config', prior) = config
       /\ DOMAIN new = DOMAIN prior
       /\ \A n \in DOMAIN prior :
            /\ Without(new[n], {"cost"}) = Without(prior[n], {"cost"})
            /\ n # editor.selectedModel => new[n] = prior[n]

\* C29: with every search answer one of the choices offered, a session of
\* configureCustomCosts changes nothing but the cost of the models the user
\* selected: the model keys, the name, limit, options and variants of every
\* model, the cost of every model not selected, the other fields of the
\* provider and config.agent stay as they were.
C29_OnlySelectedCostsChange == [][C29_Step]_vars

\* C29 happens: the session is over, the cost of GPT 5 was changed, and the
\* rest of its record and the other model are as before.
C29_Witness ==
  /\ CostsReturned
  /\ "GPT 5" \in DOMAIN ConfiguredModels(call.config)
  /\ LET prior == ConfiguredModels(call.config)
         now == ConfiguredModels(config)
     IN /\ now["GPT 5"].cost # prior["GPT 5"].cost
        /\ now["GPT 5"].limit = prior["GPT 5"].limit
        /\ now["GPT 5"].variants = prior["GPT 5"].variants
        /\ now["Unknown Model"] = prior["Unknown Model"]
        /\ config.agent = call.config.agent

====
